---- MODULE Spec2Model ----
(***************************************************************************)
(* A model of ctypegen: CTypeGen.py (namespace index, resolver, type model, *)
(* hint application, emitter, generate wrapper) and CTypeGenRun.py (layout  *)
(* verifier).                                                               *)
(*                                                                          *)
(* Recursive Python calls are modelled in continuation form: a work list    *)
(* whose head is the call being executed and whose tail is what the callers *)
(* still have to do after it returns.                                       *)
(***************************************************************************)
EXTENDS Integers, Sequences, FiniteSets, TLC

VARIABLES
    phase,            \* position of generate/generateOrThrow
    binaries,         \* the "binaries" argument: "ok", "empty" or "notlist"
    errorfuncGiven,   \* whether the caller passed an errorfunc
    existingTypes,    \* sequence of prior sessions (indices into PriorTables)
    requiredTypes,    \* TypeResolver.requiredTypes: sequence of PythonType records
    functions,        \* requested function names (scoped names)
    globalVars,       \* requested variable names (scoped names)
    loopIdx,          \* position of the current loop of __init__ / write
    nsNodes,          \* Namespace objects, keyed by their path from the root
    todo,             \* pending enumerateDIEs calls: <<die, ctx>>
    examined,         \* DIEs handed to examineDIE, in order
    typesByDieKey,    \* TypeResolver.typesByDieKey: key -> node id (0: absent)
    nodes,            \* Type objects created by this session, by id
    dttLog,           \* history of dieToType calls
    declaredTypes,    \* TypeResolver.declaredTypes (set of keys)
    definedTypes,     \* TypeResolver.definedTypes (set of keys)
    work,             \* pending emitter calls (continuation of write())
    out,              \* the stream written by write()
    sink,             \* messages received by the caller's errorfunc
    stdout,           \* messages printed
    errors,           \* TypeResolver.errors
    result,           \* what generate returned, "none" while running
    vt,               \* verifier: the class handed to checkUnalignedPtrs
    vi,               \* verifier: position of the loop over t._fields_
    vlog,             \* verifier: field names of the warnings printed
    vres,             \* verifier: how the check ended, and on which field
    hasPointersMemo   \* CTypeGenRun.hasPointersMemo

vars == << phase, binaries, errorfuncGiven, existingTypes, requiredTypes,
           functions, globalVars, loopIdx, nsNodes, todo, examined,
           typesByDieKey, nodes, dttLog, declaredTypes, definedTypes, work,
           out, sink, stdout, errors, result, vt, vi, vlog, vres,
           hasPointersMemo >>

sessionVars == << phase, binaries, errorfuncGiven, existingTypes, requiredTypes,
           functions, globalVars, loopIdx, nsNodes, todo, examined,
           typesByDieKey, nodes, dttLog, declaredTypes, definedTypes, work,
           out, sink, stdout, errors, result >>

verifierVars == << vt, vi, vlog, vres, hasPointersMemo >>

-----------------------------------------------------------------------------
(* Bounds of the inputs.                                                    *)

MaxTypes == 2
MaxFuncs == 1
MaxVars == 1

-----------------------------------------------------------------------------
(* The debug-info provider: a synthetic tree of entries.  An entry has a    *)
(* tag, a name ("" when the entry has none), a scoped name, a target-type   *)
(* reference (0: none), the declaration-only flag, a byte size, a member    *)
(* location and its children in order.                                      *)

Die(tag, name, fn, type, decl, size, loc, kids) ==
    [tag |-> tag, name |-> name, fn |-> fn, type |-> type, decl |-> decl,
     size |-> size, loc |-> loc, kids |-> kids]

Dies == <<
  (* 1*) Die("compile_unit", "cu1", <<"cu1">>, 0, FALSE, 0, 0,
             <<2, 3, 6, 33, 7, 9, 10, 34, 19, 35, 21, 22, 23, 25>>),
  (* 2*) Die("base_type", "int", <<"int">>, 0, FALSE, 4, 0, <<>>),
  (* 3*) Die("structure_type", "A", <<"A">>, 0, FALSE, 16, 0, <<4, 5>>),
  (* 4*) Die("member", "pb", <<"A", "pb">>, 6, FALSE, 0, 0, <<>>),
  (* 5*) Die("member", "x", <<"A", "x">>, 2, FALSE, 0, 8, <<>>),
  (* 6*) Die("pointer_type", "", <<"anon_6">>, 7, FALSE, 8, 0, <<>>),
  (* 7*) Die("structure_type", "B", <<"B">>, 0, FALSE, 8, 0, <<8>>),
  (* 8*) Die("member", "pa", <<"B", "pa">>, 9, FALSE, 0, 0, <<>>),
  (* 9*) Die("pointer_type", "", <<"anon_9">>, 3, FALSE, 8, 0, <<>>),
  (*10*) Die("namespace", "ns", <<"ns">>, 0, FALSE, 0, 0, <<11, 16, 18>>),
  (*11*) Die("structure_type", "S", <<"ns", "S">>, 0, FALSE, 24, 0,
             <<12, 14, 15, 36, 37, 38>>),
  (*12*) Die("union_type", "", <<"ns", "S", "anon_12">>, 0, FALSE, 4, 0, <<13>>),
  (*13*) Die("member", "i", <<"ns", "S", "anon_12", "i">>, 2, FALSE, 0, 0, <<>>),
  (*14*) Die("member", "u", <<"ns", "S", "u">>, 12, FALSE, 0, 0, <<>>),
  (*15*) Die("member", "n", <<"ns", "S", "n">>, 2, FALSE, 0, 4, <<>>),
  (*16*) Die("subprogram", "f", <<"ns", "f">>, 2, FALSE, 0, 0, <<17>>),
  (*17*) Die("formal_parameter", "a", <<"ns", "f", "a">>, 2, FALSE, 0, 0, <<>>),
  (*18*) Die("variable", "w", <<"ns", "w">>, 23, FALSE, 0, 0, <<>>),
  (*19*) Die("subprogram", "g", <<"g">>, 2, FALSE, 0, 0, <<20>>),
  (*20*) Die("formal_parameter", "a", <<"g", "a">>, 3, FALSE, 0, 0, <<>>),
  (*21*) Die("variable", "v", <<"v">>, 6, FALSE, 0, 0, <<>>),
  (*22*) Die("typedef", "T", <<"T">>, 3, FALSE, 0, 0, <<>>),
  (*23*) Die("enumeration_type", "E", <<"E">>, 0, FALSE, 1, 0, <<24>>),
  (*24*) Die("enumerator", "RED", <<"E", "RED">>, 0, FALSE, 0, 0, <<>>),
  (*25*) Die("enumeration_type", "E3", <<"E3">>, 0, FALSE, 3, 0, <<>>),
  (*26*) Die("compile_unit", "cu2", <<"cu2">>, 0, FALSE, 0, 0,
             <<27, 29, 30, 39>>),
  (*27*) Die("structure_type", "A", <<"A">>, 0, FALSE, 4, 0, <<28>>),
  (*28*) Die("member", "x", <<"A", "x">>, 2, FALSE, 0, 0, <<>>),
  (*29*) Die("subprogram", "g", <<"g">>, 0, FALSE, 0, 0, <<>>),
  (*30*) Die("variable", "v", <<"v">>, 2, FALSE, 0, 0, <<>>),
  (*31*) Die("compile_unit", "cu3", <<"cu3">>, 0, FALSE, 0, 0, <<32>>),
  (*32*) Die("structure_type", "B", <<"B">>, 0, FALSE, 8, 0, <<>>),
  (*33*) Die("structure_type", "B", <<"B">>, 0, TRUE, 0, 0, <<>>),
  (*34*) Die("subprogram", "g", <<"g">>, 2, TRUE, 0, 0, <<>>),
  (*35*) Die("variable", "v", <<"v">>, 6, TRUE, 0, 0, <<>>),
  (*36*) Die("member", "m", <<"ns", "S", "m">>, 2, FALSE, 0, 4, <<>>),
  (*37*) Die("member", "k", <<"ns", "S", "k">>, 2, FALSE, 0, 4, <<>>),
  (*38*) Die("member", "t", <<"ns", "S", "t">>, 22, FALSE, 0, 8, <<>>),
  (*39*) Die("namespace", "ns", <<"ns">>, 0, FALSE, 0, 0, <<40>>),
  (*40*) Die("variable", "w", <<"ns", "w">>, 2, FALSE, 0, 0, <<>>)
>>

DieIds == 1..Len(Dies)

\* libCTypeGen.open(libname).units(), for the two binaries, in order.
Units == << <<1, 26>>, <<31>> >>

\* dwarf.findDefinition(die): the first full definition with the same tag and
\* scoped name in that binary's units, 0 (None) when there is none.
InUnit(d, u) == d \in {Dies[u].kids[i] : i \in 1..Len(Dies[u].kids)}

findDefinition(b, d) ==
    LET cands == {e \in DieIds : /\ ~Dies[e].decl
                                 /\ Dies[e].tag = Dies[d].tag
                                 /\ Dies[e].fn = Dies[d].fn
                                 /\ \E i \in 1..Len(Units[b]) : InUnit(e, Units[b][i])}
    IN IF cands = {} THEN 0 ELSE CHOOSE e \in cands : \A e2 \in cands : e <= e2

-----------------------------------------------------------------------------
(* Small helpers on sequences.                                              *)

RECURSIVE Flatten(_)
Flatten(ss) == IF ss = <<>> THEN <<>> ELSE Head(ss) \o Flatten(Tail(ss))

RECURSIVE SubSeqs(_)
\* every order-preserving sub-list of s
SubSeqs(s) ==
    IF s = <<>> THEN {<<>>}
    ELSE LET r == SubSeqs(Tail(s)) IN r \cup {<<Head(s)>> \o t : t \in r}

Range(s) == {s[i] : i \in 1..Len(s)}

\* the element of a one-element set: Only({e(x) : x \in {v}}) is e(v), with v
\* evaluated once
Only(S) == CHOOSE v \in S : TRUE

SeqMap(F(_), s) == [i \in 1..Len(s) |-> F(s[i])]

RECURSIVE JoinWith(_, _)
JoinWith(segs, sep) ==
    IF segs = <<>> THEN ""
    ELSE IF Len(segs) = 1 THEN segs[1]
    ELSE segs[1] \o sep \o JoinWith(Tail(segs), sep)

-----------------------------------------------------------------------------
(* Requested symbols (PythonType, Hint) and prior sessions.                 *)

NoType == [res |-> -1, id |-> 0]          \* None where a Type is expected
CurType(n) == [res |-> 0, id |-> n]       \* a Type whose resolver is this session
PriorType(p, n) == [res |-> p, id |-> n]  \* a Type of prior session p

Hint(field, typename, name, typeOverride, allowUnaligned) ==
    [field |-> field, typename |-> typename, name |-> name,
     typeOverride |-> typeOverride, allowUnaligned |-> allowUnaligned]

\* PythonType.__init__; cName is kept split on "::".
PythonType(pythonName, cName, fieldHints) ==
    [pythonName |-> pythonName, cName |-> cName, fieldHints |-> fieldHints,
     type |-> NoType]

\* The requests a caller may make of this debug info; a session asks for an
\* order-preserving sub-list of each.
MasterTypes == <<
    PythonType("A", <<"A">>, <<>>),
    PythonType("S", <<"ns", "S">>, << Hint("u", "Inner", "", "", FALSE),
                                      Hint("n", "", "", "c_uint", FALSE) >>),
    PythonType("B", <<"B">>, <<>>),
    PythonType("MyA", <<"A">>, <<>>),
    PythonType("T", <<"T">>, <<>>),
    PythonType("E3", <<"E3">>, <<>>),
    PythonType("Zz", <<"Zz">>, <<>>) >>

MasterFuncs == << <<"g">>, <<"ns", "f">>, <<"nf">> >>

MasterVars == << <<"v">>, <<"ns", "w">> >>

\* The definedTypes tables of previously generated modules: key -> Type.
\* Each prior Type wraps the entry it was built from.
PriorTables == <<
    [pkgname |-> "mod1",
     definedTypes |-> << [key |-> <<"structure_type", <<"A">>>>, die |-> 3],
                         [key |-> <<"base_type", <<"int">>>>, die |-> 2] >>],
    [pkgname |-> "mod2",
     definedTypes |-> << [key |-> <<"structure_type", <<"A">>>>, die |-> 3],
                         [key |-> <<"structure_type", <<"B">>>>, die |-> 7] >>] >>

ExistingChoices == { <<>>, <<1, 2>>, <<2, 1>> }

-----------------------------------------------------------------------------
(* The error sink.  E is the record [sink, stdout, errors] threaded through *)
(* the calls of one action.                                                 *)

\* TypeResolver.error
error(E, txt) == [E EXCEPT !.errors = @ + 1, !.stdout = Append(@, "error: " \o txt)]

\* self.errorfunc = errorfunc if errorfunc else self.error
errorfunc(E, txt) ==
    IF errorfuncGiven THEN [E EXCEPT !.sink = Append(@, txt)] ELSE error(E, txt)

E0 == [sink |-> sink, stdout |-> stdout, errors |-> errors]

SetE(E) == /\ sink' = E.sink
           /\ stdout' = E.stdout
           /\ errors' = E.errors

-----------------------------------------------------------------------------
(* Namespace.  ns maps the path of every existing Namespace object to its   *)
(* fields; the parent of path p is Front(p).  A slot of "types" holds the   *)
(* index of its PythonType in requiredTypes; a slot of "variables" or       *)
(* "functions" holds an entry, 0 while it is None.                          *)

Front(p) == SubSeq(p, 1, Len(p) - 1)

Namespace == [types |-> <<>>, variables |-> <<>>, functions |-> <<>>,
              subspaces |-> <<>>, unresolvedCount |-> 0]

HasName(slots, name) == \E i \in 1..Len(slots) : slots[i].name = name

SlotIdx(slots, name) == CHOOSE i \in 1..Len(slots) : slots[i].name = name

\* incUnresolved counting in every ancestor
RECURSIVE incUnresolvedAll(_, _)
incUnresolvedAll(ns, p) ==
    IF p = <<>> THEN [ns EXCEPT ![p].unresolvedCount = @ + 1]
    ELSE Only({[up EXCEPT ![p].unresolvedCount = @ + 1] :
               up \in {incUnresolvedAll(ns, Front(p))}})

RECURSIVE incUnresolved(_, _)
incUnresolved(ns, p) ==
    LET up == IF ns[p].unresolvedCount = 0 /\ p # <<>>
              THEN incUnresolved(ns, Front(p)) ELSE ns
    IN [up EXCEPT ![p].unresolvedCount = @ + 1]

RECURSIVE decAssertOk(_, _)
\* whether every "assert self.unresolvedCount > 0" met by decUnresolved holds
decAssertOk(ns, p) ==
    /\ ns[p].unresolvedCount > 0
    /\ (ns[p].unresolvedCount = 1 /\ p # <<>>) => decAssertOk(ns, Front(p))

\* decUnresolved that never tells the parent
decUnresolvedLocal(ns, p) == [ns EXCEPT ![p].unresolvedCount = @ - 1]

RECURSIVE decUnresolved(_, _)
decUnresolved(ns, p) ==
    LET me == [ns EXCEPT ![p].unresolvedCount = @ - 1]
    IN IF me[p].unresolvedCount = 0 /\ p # <<>>
       THEN decUnresolved(me, Front(p)) ELSE me

RECURSIVE addToSetOverwrite(_, _, _, _, _)
\* addToSet letting the later of two equal names take the slot
addToSetOverwrite(ns, p, nameList, accessor, value) ==
    LET thisName == nameList[1] IN
    IF Len(nameList) = 1
    THEN IF HasName(ns[p][accessor], thisName)
         THEN [ns |-> [ns EXCEPT ![p][accessor][SlotIdx(ns[p][accessor], thisName)].value = value],
               dup |-> TRUE]
         ELSE [ns |-> incUnresolved(
                        [ns EXCEPT ![p][accessor] =
                            Append(@, [name |-> thisName, value |-> value])], p),
               dup |-> FALSE]
    ELSE LET sub == Append(p, thisName)
             made == IF sub \in DOMAIN ns THEN ns
                     ELSE [q \in DOMAIN ns \cup {sub} |->
                             IF q = sub THEN Namespace
                             ELSE IF q = p
                                  THEN [ns[p] EXCEPT !.subspaces = Append(@, thisName)]
                                  ELSE ns[q]]
         IN addToSetOverwrite(made, sub, Tail(nameList), accessor, value)

RECURSIVE addToSet(_, _, _, _, _)
\* returns [ns, dup]: the namespaces after the insertion and whether the
\* name was reported as a duplicate
addToSet(ns, p, nameList, accessor, value) ==
    LET thisName == nameList[1] IN
    IF Len(nameList) = 1
    THEN IF HasName(ns[p][accessor], thisName)
         THEN [ns |-> ns, dup |-> TRUE]
         ELSE [ns |-> incUnresolved(
                        [ns EXCEPT ![p][accessor] =
                            Append(@, [name |-> thisName, value |-> value])], p),
               dup |-> FALSE]
    ELSE LET sub == Append(p, thisName)
             made == IF sub \in DOMAIN ns THEN ns
                     ELSE [q \in DOMAIN ns \cup {sub} |->
                             IF q = sub THEN Namespace
                             ELSE IF q = p
                                  THEN [ns[p] EXCEPT !.subspaces = Append(@, thisName)]
                                  ELSE ns[q]]
         IN addToSet(made, sub, Tail(nameList), accessor, value)

\* Namespace.recurse: the order in which func meets the namespaces
RECURSIVE recurse(_, _)
recurse(ns, p) ==
    <<p>> \o Flatten([i \in 1..Len(ns[p].subspaces) |->
                        recurse(ns, Append(p, ns[p].subspaces[i]))])

-----------------------------------------------------------------------------
(* Type objects.  H is the record [tbl, nodes, log] threaded through the    *)
(* calls of one action: typesByDieKey, the Type objects of this session,    *)
(* and the history of dieToType calls.                                      *)

\* TypeResolver.dieKey.  The provider's scoped name of an unnamed entry ends
\* in a segment made from the entry's offset, so unnamed entries have keys of
\* their own.
dieKey(d) == <<Dies[d].tag, Dies[d].fn>>

typeFromTag == [t \in {"typedef", "pointer_type", "reference_type",
                       "subroutine_type", "structure_type", "class_type",
                       "union_type", "base_type", "array_type", "const_type",
                       "enumeration_type", "volatile_type", "subprogram",
                       "restrict_type"} |->
    CASE t = "typedef" -> "Typedef"
      [] t \in {"pointer_type", "reference_type"} -> "PointerType"
      [] t = "subroutine_type" -> "FunctionType"
      [] t \in {"structure_type", "class_type"} -> "StructType"
      [] t = "union_type" -> "UnionType"
      [] t = "base_type" -> "PrimitiveType"
      [] t = "array_type" -> "ArrayType"
      [] t = "const_type" -> "ConstType"
      [] t = "enumeration_type" -> "EnumType"
      [] t = "volatile_type" -> "VolatileType"
      [] t = "subprogram" -> "FunctionDefType"
      [] OTHER -> "RestrictType"]

\* the keys of the entries dieToType can be asked about
AllKeys == {dieKey(d) : d \in {e \in DieIds : Dies[e].tag \in DOMAIN typeFromTag}}

H0 == [tbl |-> typesByDieKey, nodes |-> nodes, log |-> dttLog]

SetH(H) == /\ typesByDieKey' = H.tbl
           /\ nodes' = H.nodes
           /\ dttLog' = H.log

VoidType == CurType(0)

\* Type.__init__ / MemberType.__init__
NewType(d) == [die |-> d, spec |-> 0, members |-> <<>>]

\* "for existingSet in self.existingTypes: if key in existingSet.definedTypes"
PriorAt(p, key) ==
    LET tab == PriorTables[p].definedTypes
        hits == {i \in 1..Len(tab) : tab[i].key = key}
    IN IF hits = {} THEN NoType ELSE PriorType(p, CHOOSE i \in hits : TRUE)

\* the same loop keeping the match of the last table instead of the first
RECURSIVE existingLookupLast(_, _)
existingLookupLast(sets, key) ==
    IF sets = <<>> THEN NoType
    ELSE IF PriorAt(sets[Len(sets)], key) # NoType THEN PriorAt(sets[Len(sets)], key)
    ELSE existingLookupLast(Front(sets), key)

RECURSIVE existingLookup(_, _)
existingLookup(sets, key) ==
    IF sets = <<>> THEN NoType
    ELSE IF PriorAt(Head(sets), key) # NoType THEN PriorAt(Head(sets), key)
    ELSE existingLookup(Tail(sets), key)

\* Type.__init__ / MemberType.__init__ / Typedef.__init__, then the entry in
\* typesByDieKey.  Typedef.__init__ resolves its base type first.  H is the
\* state at the call of dieToType, Hc the state after the constructor.
construct(H, Hc, d) ==
    [H |-> [Hc EXCEPT !.nodes = Append(@, NewType(d)),
                      !.tbl[dieKey(d)] = Len(Hc.nodes) + 1,
                      !.log = @ \cup {[key |-> dieKey(d),
                                       t |-> CurType(Len(Hc.nodes) + 1),
                                       had |-> FALSE,
                                       made |-> Len(Hc.nodes) + 1 - Len(H.nodes)]}],
     t |-> CurType(Len(Hc.nodes) + 1)]

\* what dieToType returns for a key it has in typesByDieKey
known(H, key, t) ==
    [H |-> [H EXCEPT !.log = @ \cup {[key |-> key, t |-> t,
                                      had |-> H.tbl[key] # 0, made |-> 0]}],
     t |-> t]

\* TypeResolver.dieToType; returns [H, t]
RECURSIVE dieToType(_, _)
dieToType(H, d) ==
    IF d = 0 THEN [H |-> H, t |-> VoidType]
    ELSE IF H.tbl[dieKey(d)] # 0 THEN known(H, dieKey(d), CurType(H.tbl[dieKey(d)]))
    ELSE Only({
           IF prior # NoType THEN known(H, dieKey(d), prior)
           ELSE IF typeFromTag[Dies[d].tag] = "Typedef" /\ Dies[d].type # 0
                THEN Only({construct(H, Hc, d) : Hc \in {dieToType(H, Dies[d].type).H}})
                ELSE construct(H, H, d)
           : prior \in {existingLookup(existingTypes, dieKey(d))}})

IsCur(t) == t.res = 0 /\ t.id > 0
IsPrior(t) == t.res > 0

\* typ.die
typeDie(H, t) ==
    IF IsCur(t) THEN H.nodes[t.id].die
    ELSE IF IsPrior(t) THEN PriorTables[t.res].definedTypes[t.id].die
    ELSE 0

\* Type.definition, on the entry the Type wraps: the entry itself unless it is
\* declaration-only, else the first binary's match, else the entry.  (Every
\* declaration of this debug info has a definition, so the error branch is
\* not met.)
RECURSIVE definitionIn(_, _)
definitionIn(b, d) ==
    IF b > Len(Units) THEN d
    ELSE IF findDefinition(b, d) # 0 THEN findDefinition(b, d)
    ELSE definitionIn(b + 1, d)

definition(d) == IF ~Dies[d].decl THEN d ELSE definitionIn(1, d)

\* the Type a lookup of entry d gives without creating anything: d's own
\* resolver is this session unless a prior table has it first
owner(H, d) ==
    IF H.tbl[dieKey(d)] # 0 THEN 0
    ELSE existingLookup(existingTypes, dieKey(d)).res

\* Type.name: "::".join( die.fullname() ), under the package name for a Type
\* of a generated module
name(d, res) ==
    LET r == JoinWith(Dies[d].fn, "::")
    IN IF res > 0 THEN PriorTables[res].pkgname \o "." \o r ELSE r

\* Type.pyName: asPythonId( name() ).  Each ":" becomes "_cn" and the next
\* plain character is preceded by "_"; the segments of this debug info hold
\* no other character that asPythonId replaces.
pyName(d, res) ==
    LET r == JoinWith(Dies[d].fn, "_cn_cn_")
    IN IF res > 0 THEN PriorTables[res].pkgname \o "." \o r ELSE r

baseTypes == [n \in {"int", "char", "unsigned int", "long int"} |->
    CASE n = "int" -> "c_int"
      [] n = "char" -> "c_char"
      [] n = "unsigned int" -> "c_uint"
      [] OTHER -> "c_long"]

RECURSIVE ctype(_, _)
\* FunctionType.ctype: the parameters
RECURSIVE ctypeParams(_, _)
ctypeParams(H, kids) ==
    IF kids = <<>> THEN ""
    ELSE (IF Dies[Head(kids)].tag = "formal_parameter"
          THEN ", " \o ctype(H, Dies[Head(kids)].type) \o "\n      " ELSE "")
         \o ctypeParams(H, Tail(kids))

\* PointerType.ctype, given the spelling of the base type
pointerCtype(baseDie, baseCtype) ==
    IF Dies[baseDie].tag = "subroutine_type" THEN baseCtype
    ELSE IF baseCtype \in {"c_char", "CONST( c_char )"} THEN "c_char_p"
    ELSE "POINTER( " \o baseCtype \o " )"

\* Type.ctype and its overrides, for the Type that entry d resolves to
ctype(H, d) ==
    Only({
      CASE cls = "PrimitiveType" -> baseTypes[Dies[d].name]
        [] cls = "PointerType" ->
             IF baseDie = 0 THEN "c_void_p"
             ELSE Only({pointerCtype(baseDie, c) : c \in {ctype(H, baseDie)}})
        [] cls \in {"FunctionType", "FunctionDefType"} ->
             "CFUNCTYPE( "
             \o (IF baseDie # 0 THEN ctype(H, baseDie) ELSE "None")
             \o ctypeParams(H, Dies[d].kids) \o ")"
        [] OTHER -> pyName(d, owner(H, d))
      : cls \in {typeFromTag[Dies[d].tag]}, baseDie \in {Dies[definition(d)].type}})

-----------------------------------------------------------------------------
(* Members and hints.                                                       *)

\* Member.__init__
Member(d) == [die |-> d, name |-> "", ctypeOverride |-> "",
              allowUnalignedPtr |-> FALSE]

\* Member.name
memberName(m) == IF m.name # "" THEN m.name ELSE Dies[m.die].name

IgnoredFieldTags == {"structure_type", "class_type", "union_type", "typedef",
                     "enumeration_type", "subprogram", "template_type_param",
                     "template_value_param", "const_type",
                     "imported_declaration"}

RECURSIVE membersOf(_, _)
\* the loop of MemberType.findMembers over the children of the definition.
\* (No entry of this debug info carries DW_AT_external or an unhandled tag.)
membersOf(kids, superCount) ==
    IF kids = <<>> THEN <<>>
    ELSE LET f == Head(kids) IN
         IF Dies[f].tag = "inheritance"
         THEN <<[Member(f) EXCEPT !.name = "__super__" \o ToString(superCount)]>>
              \o membersOf(Tail(kids), superCount + 1)
         ELSE IF Dies[f].tag = "member"
         THEN <<Member(f)>> \o membersOf(Tail(kids), superCount)
         ELSE membersOf(Tail(kids), superCount)

\* MemberType.findMembers
findMembers(H, id) ==
    IF H.nodes[id].members # <<>> THEN H
    ELSE [H EXCEPT !.nodes[id].members =
              membersOf(Dies[definition(H.nodes[id].die)].kids, 0)]

HintFor(spec, field) ==
    LET hs == {i \in 1..Len(spec.fieldHints) : spec.fieldHints[i].field = field}
    IN IF hs = {} THEN 0 ELSE CHOOSE i \in hs : TRUE

\* Type.applyHints( spec ) for a spec without field hints, with the overrides
\* of Typedef (the base type gets the spec too) and MemberType (the members
\* are looked up); si is the index of the spec in requiredTypes.  A Type of a
\* previous session keeps its state outside this session.
RECURSIVE setSpec(_, _, _)
setSpec(H, t, si) ==
    IF ~IsCur(t) THEN H
    ELSE Only({
        IF cls = "Typedef"
        THEN Only({setSpec(b.H, b.t, si) :
                   b \in {dieToType([H EXCEPT !.nodes[t.id].spec = si],
                                    Dies[definition(H.nodes[t.id].die)].type)}})
        ELSE IF cls \in {"StructType", "UnionType"}
        THEN findMembers([H EXCEPT !.nodes[t.id].spec = si], t.id)
        ELSE [H EXCEPT !.nodes[t.id].spec = si]
        : cls \in {typeFromTag[Dies[H.nodes[t.id].die].tag]}})

\* the MemberType whose members the hints of a spec are applied to: t itself,
\* or the end of the chain of typedefs that starts at t
RECURSIVE hinted(_, _)
hinted(H, t) ==
    IF ~IsCur(t) THEN NoType
    ELSE IF typeFromTag[Dies[H.nodes[t.id].die].tag] = "Typedef"
    THEN Only({hinted(H, b) :
               b \in {dieToType(H, Dies[definition(H.nodes[t.id].die)].type).t}})
    ELSE IF typeFromTag[Dies[H.nodes[t.id].die].tag] \in {"StructType", "UnionType"}
    THEN t
    ELSE NoType

\* the PythonType made for a typename hint, for a member of Type mt
typedescFor(H, hint, mt) ==
    [pythonName |-> hint.typename, cName |-> Dies[typeDie(H, mt)].fn,
     fieldHints |-> <<>>, type |-> mt]

\* the body of the loop of MemberType.applyHints for member k of Type id,
\* whose hint is hint; returns [H, req]
applyHint(H, req, id, k, hint) ==
    Only({
      [H |-> [named.H EXCEPT !.nodes[id].members[k] =
                [@ EXCEPT
                   !.name = IF hint.name # "" THEN hint.name ELSE @,
                   !.ctypeOverride = IF hint.typeOverride # ""
                                     THEN hint.typeOverride ELSE @,
                   !.allowUnalignedPtr = hint.allowUnaligned]],
       req |-> named.req]
      : named \in {
          IF hint.typename = "" THEN [H |-> H, req |-> req]
          ELSE Only({
                 [H |-> setSpec(mt.H, mt.t, Len(req) + 1),
                  req |-> Append(req, typedescFor(mt.H, hint, mt.t))]
                 : mt \in {dieToType(H, Dies[H.nodes[id].members[k].die].type)}})}})

\* the loop of MemberType.applyHints from member k on; returns [H, req]
RECURSIVE memberHints(_, _, _, _, _)
memberHints(H, req, id, k, spec) ==
    IF k > Len(H.nodes[id].members) THEN [H |-> H, req |-> req]
    ELSE Only({
           memberHints(r.H, r.req, id, k + 1, spec)
           : r \in {Only({
                 IF h = 0 THEN [H |-> H, req |-> req]
                 ELSE applyHint(H, req, id, k, spec.fieldHints[h])
                 : h \in {HintFor(spec, memberName(H.nodes[id].members[k]))}})}})

\* i.type.applyHints( i ) for the PythonType spec = requiredTypes[si]
applyHints(H, req, t, si, spec) ==
    Only({
      Only({
        IF target = NoType THEN [H |-> H1, req |-> req]
        ELSE memberHints(H1, req, target.id, 1, spec)
        : target \in {hinted(H1, t)}})
      : H1 \in {setSpec(H, t, si)}})

-----------------------------------------------------------------------------
(* generate / generateOrThrow: the start of a session.                      *)

SubSeqsUpTo(s, n) == {t \in SubSeqs(s) : Len(t) <= n}

NoClass == [hasFields |-> FALSE, fields |-> <<>>, allowed |-> {}]

\* the ctypes classes hasPointers can meet
TypeNames == {"c_char", "c_int", "c_char_p", "c_void_p", "LP_c_int",
              "Plain", "Link", "Holder"}

NoMemo == [t \in TypeNames |-> "absent"]

Idle == [st |-> "off", field |-> ""]

Init ==
    /\ phase = "start"
    /\ binaries \in {"ok", "empty", "notlist"}
    /\ errorfuncGiven \in BOOLEAN
    /\ existingTypes \in ExistingChoices
    /\ requiredTypes \in SubSeqsUpTo(MasterTypes, MaxTypes)
    /\ functions \in SubSeqsUpTo(MasterFuncs, MaxFuncs)
    /\ globalVars \in SubSeqsUpTo(MasterVars, MaxVars)
    /\ binaries # "ok" => /\ existingTypes = <<>>
                          /\ requiredTypes = <<>>
                          /\ functions = <<>>
                          /\ globalVars = <<>>
    /\ loopIdx = 1
    /\ nsNodes = [p \in {<<>>} |-> Namespace]
    /\ todo = [i \in 1..Len(Flatten(Units)) |->
                  [die |-> Flatten(Units)[i], ctx |-> <<>>]]
    /\ examined = <<>>
    /\ typesByDieKey = [k \in AllKeys |-> 0]
    /\ nodes = <<>>
    /\ dttLog = {}
    /\ declaredTypes = {}
    /\ definedTypes = {}
    /\ work = <<>>
    /\ out = <<>>
    /\ sink = <<>>
    /\ stdout = <<>>
    /\ errors = 0
    /\ result = "none"
    /\ vt = NoClass
    /\ vi = 0
    /\ vlog = <<>>
    /\ vres = Idle
    /\ hasPointersMemo = NoMemo

\* an except clause that reports to the sink and prints as well
FatalBoth(E) ==
    /\ SetE([E EXCEPT !.sink = Append(@, "Fatal error: "),
                      !.stdout = Append(@, "Fatal error: ")])
    /\ result' = "fail"
    /\ phase' = "done"

\* the except clause of generate
Fatal(E) ==
    /\ IF errorfuncGiven
       THEN SetE([E EXCEPT !.sink = Append(@, "Fatal error: ")])
       ELSE SetE([E EXCEPT !.stdout = Append(@, "Fatal error: ")])
    /\ result' = "fail"
    /\ phase' = "done"

\* generate -> generateOrThrow, up to the first statement of
\* TypeResolver.__init__ that does not depend on the provider.  "opened" is
\* whether libCTypeGen.open succeeds on every binary.
Generate ==
    /\ phase = "start"
    /\ \E opened \in BOOLEAN :
        CASE binaries = "notlist" /\ errorfuncGiven ->
               /\ SetE([E0 EXCEPT !.sink = Append(@, "CTypeGen.generate requires a list of ELF images as its first argument")])
               /\ result' = "fail"
               /\ phase' = "done"
          [] binaries = "notlist" \/ binaries = "empty" \/ ~opened -> Fatal(E0)
          [] OTHER ->
               /\ phase' = "addTypes"
               /\ UNCHANGED <<sink, stdout, errors, result>>
    /\ UNCHANGED <<binaries, errorfuncGiven, existingTypes, requiredTypes,
                   functions, globalVars, loopIdx, nsNodes, todo, examined,
                   typesByDieKey, nodes, dttLog, declaredTypes, definedTypes,
                   work, out, verifierVars>>

-----------------------------------------------------------------------------
(* TypeResolver.__init__: the three insertion loops.                        *)

\* Namespace.addType / addVar / addFunc on the root, with the report of a
\* duplicate
Insert(nameList, accessor, value) ==
    \E r \in {addToSet(nsNodes, <<>>, nameList, accessor, value)} :
       /\ nsNodes' = r.ns
       /\ IF r.dup
          THEN SetE(errorfunc(E0, "duplicate name: " \o nameList[Len(nameList)]))
          ELSE UNCHANGED <<sink, stdout, errors>>
       /\ loopIdx' = loopIdx + 1
       /\ UNCHANGED <<phase, binaries, errorfuncGiven, existingTypes,
                      requiredTypes, functions, globalVars, todo, examined,
                      typesByDieKey, nodes, dttLog, declaredTypes,
                      definedTypes, work, out, result, verifierVars>>

LoopExit(next) ==
    /\ phase' = next
    /\ loopIdx' = 1
    /\ UNCHANGED <<binaries, errorfuncGiven, existingTypes, requiredTypes,
                   functions, globalVars, nsNodes, todo, examined,
                   typesByDieKey, nodes, dttLog, declaredTypes, definedTypes,
                   work, out, sink, stdout, errors, result, verifierVars>>

AddType ==
    /\ phase = "addTypes"
    /\ loopIdx <= Len(requiredTypes)
    /\ Insert(requiredTypes[loopIdx].cName, "types", loopIdx)

AddTypesDone ==
    /\ phase = "addTypes"
    /\ loopIdx > Len(requiredTypes)
    /\ LoopExit("addVars")

AddVar ==
    /\ phase = "addVars"
    /\ loopIdx <= Len(globalVars)
    /\ Insert(globalVars[loopIdx], "variables", 0)

AddVarsDone ==
    /\ phase = "addVars"
    /\ loopIdx > Len(globalVars)
    /\ LoopExit("addFuncs")

AddFunc ==
    /\ phase = "addFuncs"
    /\ loopIdx <= Len(functions)
    /\ Insert(functions[loopIdx], "functions", 0)

AddFuncsDone ==
    /\ phase = "addFuncs"
    /\ loopIdx > Len(functions)
    /\ LoopExit("traverse")

-----------------------------------------------------------------------------
(* TypeResolver.examineDIE and enumerateDIEs.                               *)

typeDieTags == {"structure_type", "class_type", "union_type",
                "enumeration_type", "typedef", "base_type"}

NoCtx == <<"None">>

\* examineDIE without the "is None" tests: every entry that names a requested
\* slot fills it
FillsAgain(ns, req, d, ctx) ==
    LET tag == Dies[d].tag
        nm == Dies[d].name
        me == ns[ctx]
    IN  IF tag \in {"compile_unit", "partial_unit"} \/ nm = "" THEN ""
        ELSE IF tag = "variable"
        THEN IF HasName(me.variables, nm) THEN "variables" ELSE ""
        ELSE IF Dies[d].decl THEN ""
        ELSE IF tag = "subprogram"
        THEN IF HasName(me.functions, nm) THEN "functions" ELSE ""
        ELSE IF tag \in typeDieTags
        THEN IF HasName(me.types, nm) THEN "types" ELSE ""
        ELSE ""

\* examineDIE filling a variable slot whether or not it is still None
FillsVariableAgain(ns, req, d, ctx) ==
    LET tag == Dies[d].tag
        nm == Dies[d].name
        me == ns[ctx]
    IN  IF tag \in {"compile_unit", "partial_unit"} \/ nm = "" THEN ""
        ELSE IF tag = "variable"
        THEN IF HasName(me.variables, nm) THEN "variables" ELSE ""
        ELSE IF Dies[d].decl THEN ""
        ELSE IF tag = "subprogram"
        THEN IF HasName(me.functions, nm)
                /\ me.functions[SlotIdx(me.functions, nm)].value = 0
             THEN "functions" ELSE ""
        ELSE IF tag \in typeDieTags
        THEN IF HasName(me.types, nm)
                /\ req[me.types[SlotIdx(me.types, nm)].value].type = NoType
             THEN "types" ELSE ""
        ELSE ""

\* whether examineDIE fills a slot with this entry: the accessor of the slot,
\* or "" when it fills none
Fills(ns, req, d, ctx) ==
    LET tag == Dies[d].tag
        nm == Dies[d].name
        me == ns[ctx]
    IN  IF tag \in {"compile_unit", "partial_unit"} \/ nm = "" THEN ""
        ELSE IF tag = "variable"
        THEN IF HasName(me.variables, nm)
                /\ me.variables[SlotIdx(me.variables, nm)].value = 0
             THEN "variables" ELSE ""
        ELSE IF Dies[d].decl THEN ""
        ELSE IF tag = "subprogram"
        THEN IF HasName(me.functions, nm)
                /\ me.functions[SlotIdx(me.functions, nm)].value = 0
             THEN "functions" ELSE ""
        ELSE IF tag \in typeDieTags
        THEN IF HasName(me.types, nm)
                /\ req[me.types[SlotIdx(me.types, nm)].value].type = NoType
             THEN "types" ELSE ""
        ELSE ""

\* examineDIE returning a sub-namespace only while it has something pending
DescendPending(ns, d, ctx) ==
    LET tag == Dies[d].tag
        nm == Dies[d].name
    IN  IF tag \in {"compile_unit", "partial_unit"} THEN ctx
        ELSE IF nm = "" THEN NoCtx
        ELSE IF tag = "variable" \/ Dies[d].decl \/ tag = "subprogram" THEN NoCtx
        ELSE IF tag \in {"namespace", "structure_type", "class_type"}
                /\ nm \in Range(ns[ctx].subspaces)
                /\ ns[Append(ctx, nm)].unresolvedCount > 0
        THEN Append(ctx, nm)
        ELSE NoCtx

\* the namespace examineDIE returns, NoCtx for None
Descend(ns, d, ctx) ==
    LET tag == Dies[d].tag
        nm == Dies[d].name
    IN  IF tag \in {"compile_unit", "partial_unit"} THEN ctx
        ELSE IF nm = "" THEN NoCtx
        ELSE IF tag = "variable" \/ Dies[d].decl \/ tag = "subprogram" THEN NoCtx
        ELSE IF tag \in {"namespace", "structure_type", "class_type"}
                /\ nm \in Range(ns[ctx].subspaces)
        THEN Append(ctx, nm)
        ELSE NoCtx

\* the state after examineDIE: [ns, req, H]
examineDIE(ns, req, H, d, ctx) ==
    Only({
      IF acc = "" THEN [ns |-> ns, req |-> req, H |-> H]
      ELSE Only({
        IF acc = "types"
        THEN Only({[ns |-> decUnresolved(ns, ctx),
                    req |-> [req EXCEPT ![ns[ctx].types[i].value].type = dt.t],
                    H |-> dt.H] : dt \in {dieToType(H, d)}})
        ELSE Only({[ns |-> decUnresolved(filled, ctx), req |-> req, H |-> H]
                   : filled \in {[ns EXCEPT ![ctx][acc][i].value = d]}})
        : i \in {SlotIdx(ns[ctx][acc], Dies[d].name)}})
      : acc \in {Fills(ns, req, d, ctx)}})

Children(d, ctx) == [i \in 1..Len(Dies[d].kids) |-> [die |-> Dies[d].kids[i], ctx |-> ctx]]

\* enumerateDIEs stopping its own loop only, instead of the whole traversal
enumerateReturn(rootCount, d, ctx, rest) ==
    IF rootCount = 0 THEN rest
    ELSE IF ctx # NoCtx THEN Children(d, ctx) \o rest
    ELSE rest

\* what is left to enumerate after func has examined d: nothing once the root
\* has nothing unresolved (StopIteration ends both loops of __init__), else
\* the children (when a context was returned) and then the callers' rest
enumerateDIEs(rootCount, d, ctx, rest) ==
    IF rootCount = 0 THEN <<>>
    ELSE IF ctx # NoCtx THEN Children(d, ctx) \o rest
    ELSE rest

Examine ==
    /\ phase = "traverse"
    /\ todo # <<>>
    /\ \E d \in {Head(todo).die}, ctx \in {Head(todo).ctx} :
       \E acc \in {Fills(nsNodes, requiredTypes, d, ctx)},
          r \in {examineDIE(nsNodes, requiredTypes, H0, d, ctx)} :
       \E left \in {enumerateDIEs(r.ns[<<>>].unresolvedCount, d,
                                  Descend(nsNodes, d, ctx), Tail(todo))} :
           /\ examined' = Append(examined, d)
           /\ IF acc # "" /\ ~decAssertOk(nsNodes, ctx)
              THEN \* AssertionError in decUnresolved
                   /\ Fatal(E0)
                   /\ UNCHANGED <<nsNodes, requiredTypes, typesByDieKey, nodes,
                                  dttLog, todo, loopIdx>>
              ELSE /\ nsNodes' = r.ns
                   /\ requiredTypes' = r.req
                   /\ SetH(r.H)
                   /\ todo' = left
                   /\ phase' = IF left = <<>> THEN "hints" ELSE "traverse"
                   /\ loopIdx' = 1
                   /\ UNCHANGED <<sink, stdout, errors, result>>
    /\ UNCHANGED <<binaries, errorfuncGiven, existingTypes, functions,
                   globalVars, declaredTypes, definedTypes, work, out,
                   verifierVars>>

-----------------------------------------------------------------------------
(* The hint loop that ends TypeResolver.__init__.                           *)

\* a hint loop that skips an unresolved PythonType without a word
noTypeSilent(E, i) == E

\* "if i.type is None: self.errorfunc( ... ); continue"
noType(E, i) == errorfunc(E, "no type for " \o i.pythonName)

ApplyHints ==
    /\ phase = "hints"
    /\ loopIdx <= Len(requiredTypes)
    /\ LET i == requiredTypes[loopIdx] IN
       IF i.type = NoType
       THEN /\ SetE(noType(E0, i))
            /\ UNCHANGED <<requiredTypes, typesByDieKey, nodes, dttLog>>
       ELSE \E r \in {applyHints(H0, requiredTypes, i.type, loopIdx, i)} :
               /\ requiredTypes' = r.req
               /\ SetH(r.H)
               /\ UNCHANGED <<sink, stdout, errors>>
    /\ loopIdx' = loopIdx + 1
    /\ UNCHANGED <<phase, binaries, errorfuncGiven, existingTypes, functions,
                   globalVars, nsNodes, todo, examined, declaredTypes,
                   definedTypes, work, out, result, verifierVars>>

-----------------------------------------------------------------------------
(* TypeResolver.write: the emitter.  A work item is a call still to be made *)
(* and Em is the record [H, declared, defined, out, work, raised] threaded  *)
(* through one step.                                                        *)

Item(op, t, d, s) == [op |-> op, t |-> t, d |-> d, s |-> s]

OutRec(k, t, nm, text, fields, offsets) ==
    [k |-> k, t |-> t, name |-> nm, text |-> text, fields |-> fields,
     offsets |-> offsets]

\* Namespace.name
RECURSIVE nsName(_)
nsName(p) == IF p = <<>> THEN "None"
             ELSE IF Len(p) = 1 THEN p[1]
             ELSE nsName(Front(p)) \o "::" \o p[Len(p)]

\* the calls doNSTypes makes for one namespace
doNSTypes(ns, req, p) ==
    [i \in 1..Len(ns[p].types) |->
        Item("defineType", req[ns[p].types[i].value].type, 0, "")]
    \o [i \in 1..Len(ns[p].variables) |->
        IF ns[p].variables[i].value = 0
        THEN Item("err", NoType, 0, "variable " \o ns[p].variables[i].name
                                   \o " not found in namespace " \o nsName(p))
        ELSE Item("defineDie", NoType, Dies[ns[p].variables[i].value].type, "")]
    \o [i \in 1..Len(ns[p].functions) |->
        IF ns[p].functions[i].value # 0
        THEN Item("directDefine", NoType, ns[p].functions[i].value, "")
        ELSE Item("err", NoType, 0, "function " \o ns[p].functions[i].name
                                   \o " not found")]

\* "with open( outname, 'w' ) as content", which may fail, the header, and
\* self.rootNamespace.recurse( doNSTypes )
WriteStart ==
    /\ phase = "hints"
    /\ loopIdx > Len(requiredTypes)
    /\ \E created \in BOOLEAN :
         IF created
         THEN /\ phase' = "write"
              /\ out' = <<OutRec("header", NoType, "", "", <<>>, <<>>)>>
              /\ work' = Flatten([k \in 1..Len(recurse(nsNodes, <<>>)) |->
                     doNSTypes(nsNodes, requiredTypes, recurse(nsNodes, <<>>)[k])])
              /\ UNCHANGED <<sink, stdout, errors, result>>
         ELSE /\ Fatal(E0)
              /\ UNCHANGED <<out, work>>
    /\ UNCHANGED <<binaries, errorfuncGiven, existingTypes, requiredTypes,
                   functions, globalVars, loopIdx, nsNodes, todo, examined,
                   typesByDieKey, nodes, dttLog, declaredTypes, definedTypes,
                   verifierVars>>

Em0 == [H |-> H0, declared |-> declaredTypes, defined |-> definedTypes,
        out |-> out, work |-> Tail(work), raised |-> FALSE]

\* Type.baseType; returns [H, t]
baseType(H, t) ==
    LET baseDie == Dies[definition(typeDie(H, t))].type
    IN IF baseDie # 0 THEN dieToType(H, baseDie) ELSE [H |-> H, t |-> NoType]

classOf(H, t) == typeFromTag[Dies[typeDie(H, t)].tag]

\* MemberType.declare: the class statement
declareMember(Em, t) ==
    [Em EXCEPT !.out = Append(@, OutRec("class", t,
                          pyName(typeDie(Em.H, t), 0), "", <<>>, <<>>))]

\* typ.declare( out ), by class
declare(Em, t) ==
    Only({
      IF cls \in {"StructType", "UnionType"} THEN declareMember(Em, t)
      ELSE IF cls = "Typedef"
      THEN [Em EXCEPT !.work = <<Item("declareBase", t, 0, ""),
                                 Item("alias", t, 0, "")>> \o @]
      ELSE IF cls \in {"PointerType", "ConstType", "VolatileType", "RestrictType"}
      THEN [Em EXCEPT !.work = <<Item("declareBase", t, 0, "")>> \o @]
      ELSE [Em EXCEPT !.work = <<Item("defineType", t, 0, "")>> \o @]
      : cls \in {classOf(Em.H, t)}})

\* declareType without the test of the resolver
declareTypeForeign(Em, t) ==
    IF t = NoType THEN Em
    ELSE IF dieKey(typeDie(Em.H, t)) \in Em.declared THEN Em
    ELSE Only({declare(e, t) :
               e \in {[Em EXCEPT !.declared = @ \cup {dieKey(typeDie(Em.H, t))}]}})

\* TypeResolver.declareType
declareType(Em, t) ==
    IF t = NoType THEN Em
    ELSE IF dieKey(typeDie(Em.H, t)) \in Em.declared THEN Em
    ELSE IF ~IsCur(t) THEN Em
    ELSE Only({declare(e, t) :
               e \in {[Em EXCEPT !.declared = @ \cup {dieKey(typeDie(Em.H, t))}]}})

\* EnumType.intType: "" where it raises
intType(d) ==
    LET size == Dies[definition(d)].size
    IN CASE size = 4 -> "c_uint32"
         [] size = 8 -> "c_uint64"
         [] size = 2 -> "c_uint16"
         [] size = 1 -> "c_byte"
         [] OTHER -> ""

memberTypes(ms) == [i \in 1..Len(ms) |-> Item("defineDie", NoType, Dies[ms[i].die].type, "")]

RECURSIVE params(_)
\* FunctionType.params
params(kids) ==
    IF kids = <<>> THEN <<>>
    ELSE (IF Dies[Head(kids)].tag = "formal_parameter" THEN <<Head(kids)>> ELSE <<>>)
         \o params(Tail(kids))

\* MemberType.define writing its field list before it has defined the types
\* of the members and declared itself
defineMemberLate(Em, t) ==
    Only({[Em EXCEPT !.H = H1,
                     !.work = <<Item("body", t, 0, "")>>
                              \o memberTypes(H1.nodes[t.id].members)
                              \o <<Item("declareType", t, 0, "")>> \o @]
          : H1 \in {findMembers(Em.H, t.id)}})

\* MemberType.define up to its writes: the members, then the calls
defineMember(Em, t) ==
    Only({[Em EXCEPT !.H = H1,
                     !.work = <<Item("declareType", t, 0, "")>>
                              \o memberTypes(H1.nodes[t.id].members)
                              \o <<Item("body", t, 0, "")>> \o @]
          : H1 \in {findMembers(Em.H, t.id)}})

\* EnumType.define
defineEnum(Em, t, d) ==
    IF intType(d) = "" THEN [Em EXCEPT !.raised = TRUE]
    ELSE [Em EXCEPT !.out = Append(@, OutRec("enum", t, pyName(d, 0),
                                             intType(d), <<>>, <<>>))]

\* FunctionType.define
defineFunction(Em, t, ps) ==
    [Em EXCEPT !.work = <<Item("defineBase", t, 0, "")>>
                        \o [i \in 1..Len(ps) |->
                              Item("defineDie", NoType, Dies[ps[i]].type, "")]
                        \o @]

\* a PointerType.define that leaves the pointee alone
definePointerNothing(Em, t) == Em

\* PointerType.define
definePointer(Em, t) ==
    [Em EXCEPT !.work = <<Item("declareBase", t, 0, "")>> \o @]

\* typ.define( out ), by class
define(Em, t) ==
    Only({
      IF cls \in {"StructType", "UnionType"} THEN defineMember(Em, t)
      ELSE IF cls = "EnumType" THEN defineEnum(Em, t, d)
      ELSE IF cls = "PointerType" THEN definePointer(Em, t)
      ELSE IF cls = "Typedef"
      THEN [Em EXCEPT !.work = <<Item("defineBase", t, 0, ""),
                                 Item("declareType", t, 0, "")>> \o @]
      ELSE IF cls \in {"ArrayType", "ConstType", "VolatileType", "RestrictType"}
      THEN [Em EXCEPT !.work = <<Item("defineBase", t, 0, "")>> \o @]
      ELSE IF cls \in {"FunctionType", "FunctionDefType"}
      THEN Only({defineFunction(Em, t, ps) : ps \in {params(Dies[d].kids)}})
      ELSE Em
      : cls \in {classOf(Em.H, t)}, d \in {typeDie(Em.H, t)}})

\* defineType without the look-up in definedTypes
defineTypeAlways(Em, t) ==
    IF t = NoType \/ typeDie(Em.H, t) = 0 THEN Em
    ELSE IF ~IsCur(t) THEN Em
    ELSE Only({define(e, t) :
               e \in {[Em EXCEPT !.defined = @ \cup {dieKey(typeDie(Em.H, t))}]}})

\* TypeResolver.defineType
defineType(Em, t) ==
    IF t = NoType \/ typeDie(Em.H, t) = 0 THEN Em
    ELSE IF ~IsCur(t) THEN Em
    ELSE IF dieKey(typeDie(Em.H, t)) \notin Em.defined
    THEN Only({define(e, t) :
               e \in {[Em EXCEPT !.defined = @ \cup {dieKey(typeDie(Em.H, t))}]}})
    ELSE Em

\* Member.ctype
memberCtype(H, m) ==
    IF m.ctypeOverride # "" THEN m.ctypeOverride ELSE ctype(H, Dies[m.die].type)

RECURSIVE offsetsPreceding(_, _)
\* the loop of StructType.define comparing with the member just before,
\* recorded or not
offsetsPreceding(ms, lastOffset) ==
    IF ms = <<>> THEN <<>>
    ELSE LET memberOffset == Dies[Head(ms).die].loc IN
         IF memberOffset # lastOffset /\ Head(ms).ctypeOverride = ""
         THEN <<memberOffset>> \o offsetsPreceding(Tail(ms), memberOffset)
         ELSE <<-1>> \o offsetsPreceding(Tail(ms), memberOffset)

RECURSIVE offsets(_, _)
\* the loop of StructType.define: the expected offset of each member, -1
\* where None is written
offsets(ms, lastOffset) ==
    IF ms = <<>> THEN <<>>
    ELSE LET memberOffset == Dies[Head(ms).die].loc IN
         IF memberOffset # lastOffset /\ Head(ms).ctypeOverride = ""
         THEN <<memberOffset>> \o offsets(Tail(ms), memberOffset)
         ELSE <<-1>> \o offsets(Tail(ms), lastOffset)

\* the writes that end MemberType.define, and StructType.define's offsets
body(Em, t) ==
    Only({
      [Em EXCEPT !.out = Append(@,
          OutRec("fields", t, pyName(typeDie(Em.H, t), 0), "",
                 [i \in 1..Len(ms) |->
                     [n |-> memberName(ms[i]), c |-> memberCtype(Em.H, ms[i])]],
                 IF classOf(Em.H, t) = "StructType" THEN offsets(ms, -1) ELSE <<>>))]
      : ms \in {Em.H.nodes[t.id].members}})

\* the end of Typedef.declare: the alias line, unless both names are the same
aliasLine(Em, t, H1, nm, text) ==
    IF nm = text THEN [Em EXCEPT !.H = H1]
    ELSE [Em EXCEPT !.H = H1,
                    !.out = Append(@, OutRec("typedef", t, nm, text, <<>>, <<>>))]

alias(Em, t) ==
    Only({
      Only({aliasLine(Em, t, b.H, pyName(typeDie(Em.H, t), 0), text)
            : text \in {ctype(b.H, typeDie(b.H, b.t))}})
      : b \in {baseType(Em.H, t)}})

\* one call of the emitter
Step(Em, it) ==
    CASE it.op = "defineType" -> defineType(Em, it.t)
      [] it.op = "declareType" -> declareType(Em, it.t)
      [] it.op = "defineDie" ->
           Only({Only({defineType(e, r.t) : e \in {[Em EXCEPT !.H = r.H]}})
                 : r \in {dieToType(Em.H, it.d)}})
      [] it.op = "declareBase" ->
           Only({Only({declareType(e, r.t) : e \in {[Em EXCEPT !.H = r.H]}})
                 : r \in {baseType(Em.H, it.t)}})
      [] it.op = "defineBase" ->
           Only({Only({defineType(e, r.t) : e \in {[Em EXCEPT !.H = r.H]}})
                 : r \in {baseType(Em.H, it.t)}})
      [] it.op = "directDefine" ->
           Only({Only({define(e, r.t) : e \in {[Em EXCEPT !.H = r.H]}})
                 : r \in {dieToType(Em.H, it.d)}})
      [] it.op = "body" -> body(Em, it.t)
      [] OTHER -> alias(Em, it.t)

\* the next call of the emitter: defineType, declareType, a declare or define
\* of the type model, or one of their writes
Emit ==
    /\ phase = "write"
    /\ work # <<>>
    /\ Head(work).op # "err"
    /\ \E e \in {Step(Em0, Head(work))} :
       IF e.raised
       THEN /\ Fatal(E0)
            /\ UNCHANGED <<typesByDieKey, nodes, dttLog, declaredTypes,
                           definedTypes, out, work>>
       ELSE /\ SetH(e.H)
            /\ declaredTypes' = e.declared
            /\ definedTypes' = e.defined
            /\ out' = e.out
            /\ work' = e.work
            /\ UNCHANGED <<phase, sink, stdout, errors, result>>
    /\ UNCHANGED <<binaries, errorfuncGiven, existingTypes, requiredTypes,
                   functions, globalVars, loopIdx, nsNodes, todo, examined,
                   verifierVars>>

\* doNSTypes: a requested variable or function that was not found
ReportMissing ==
    /\ phase = "write"
    /\ work # <<>>
    /\ Head(work).op = "err"
    /\ SetE(errorfunc(E0, Head(work).s))
    /\ work' = Tail(work)
    /\ UNCHANGED <<phase, binaries, errorfuncGiven, existingTypes,
                   requiredTypes, functions, globalVars, loopIdx, nsNodes,
                   todo, examined, typesByDieKey, nodes, dttLog,
                   declaredTypes, definedTypes, out, result, verifierVars>>

\* doGlobalVars for one namespace
doGlobalVars(ns, H, p) ==
    LET found == SelectSeq(ns[p].variables, LAMBDA v : v.value # 0)
    IN [i \in 1..Len(found) |->
          OutRec("global", NoType, found[i].name,
                 ctype(H, Dies[found[i].value].type), <<>>, <<>>)]

\* doFunctions for one namespace: FunctionDefType.writeLibUpdates
doFunctions(ns, H, p) ==
    LET found == SelectSeq(ns[p].functions, LAMBDA f : f.value # 0)
    IN [i \in 1..Len(found) |->
          OutRec("argtypes", NoType, name(found[i].value, 0),
                 IF Dies[definition(found[i].value)].type # 0
                 THEN ctype(H, Dies[definition(found[i].value)].type) ELSE "",
                 [k \in 1..Len(params(Dies[found[i].value].kids)) |->
                    [n |-> "",
                     c |-> ctype(H, Dies[params(Dies[found[i].value].kids)[k]].type)]],
                 <<>>)]

\* "doFunctions( self.rootNamespace )"
decorateFunctions(ns, H) == doFunctions(ns, H, <<>>)

\* the assignments with the comparison of the two names turned around
aliasesSame(req, H) ==
    LET named == SelectSeq(req, LAMBDA spec :
                    /\ spec.type # NoType
                    /\ spec.pythonName = ctype(H, typeDie(H, spec.type)))
    IN [i \in 1..Len(named) |->
          OutRec("assign", named[i].type, named[i].pythonName,
                 ctype(H, typeDie(H, named[i].type)), <<>>, <<>>)]

\* the assignments for PythonTypes whose python name is not the ctype name
aliases(req, H) ==
    LET named == SelectSeq(req, LAMBDA spec :
                    /\ spec.type # NoType
                    /\ spec.pythonName # ctype(H, typeDie(H, spec.type)))
    IN [i \in 1..Len(named) |->
          OutRec("assign", named[i].type, named[i].pythonName,
                 ctype(H, typeDie(H, named[i].type)), <<>>, <<>>)]

\* the rest of write() once every wanted type is defined
WriteTail ==
    /\ phase = "write"
    /\ work = <<>>
    /\ out' = out
              \o Flatten([k \in 1..Len(recurse(nsNodes, <<>>)) |->
                    doGlobalVars(nsNodes, H0, recurse(nsNodes, <<>>)[k])])
              \o <<OutRec("decorateFunctions", NoType, "", "", <<>>, <<>>)>>
              \o decorateFunctions(nsNodes, H0)
              \o aliases(requiredTypes, H0)
              \o <<OutRec("main", NoType, "", "", <<>>, <<>>)>>
    /\ phase' = "load"
    /\ UNCHANGED <<binaries, errorfuncGiven, existingTypes, requiredTypes,
                   functions, globalVars, loopIdx, nsNodes, todo, examined,
                   typesByDieKey, nodes, dttLog, declaredTypes, definedTypes,
                   work, sink, stdout, errors, result, verifierVars>>

\* imp.load_source: the provider of the module may fail
Load ==
    /\ phase = "load"
    /\ \E loaded \in BOOLEAN :
         IF loaded
         THEN /\ phase' = "test"
              /\ UNCHANGED <<sink, stdout, errors, result>>
         ELSE Fatal(E0)
    /\ UNCHANGED <<binaries, errorfuncGiven, existingTypes, requiredTypes,
                   functions, globalVars, loopIdx, nsNodes, todo, examined,
                   typesByDieKey, nodes, dttLog, declaredTypes, definedTypes,
                   work, out, verifierVars>>

\* mod.test_classes() and the return of generateOrThrow
SelfTest ==
    /\ phase = "test"
    /\ \E passed \in BOOLEAN :
         IF passed
         THEN /\ phase' = "done"
              /\ result' = "ok"
              /\ stdout' = Append(stdout, "generated and tested")
              /\ UNCHANGED <<sink, errors>>
         ELSE Fatal(E0)
    /\ UNCHANGED <<binaries, errorfuncGiven, existingTypes, requiredTypes,
                   functions, globalVars, loopIdx, nsNodes, todo, examined,
                   typesByDieKey, nodes, dttLog, declaredTypes, definedTypes,
                   work, out, verifierVars>>

Next ==
    \/ Generate
    \/ AddType
    \/ AddTypesDone
    \/ AddVar
    \/ AddVarsDone
    \/ AddFunc
    \/ AddFuncsDone
    \/ Examine
    \/ ApplyHints
    \/ WriteStart
    \/ Emit
    \/ ReportMissing
    \/ WriteTail
    \/ Load
    \/ SelfTest

Spec == Init /\ [][Next]_vars

\* The sessions in which every type belongs to the session itself: no prior
\* module is supplied.  The session is one synchronous call: it runs on
\* until it returns.
InitAlone == Init /\ existingTypes = <<>>

FairSpec == InitAlone /\ [][Next]_vars /\ WF_vars(Next)

-----------------------------------------------------------------------------
(* CTypeGenRun: the alignment check of the layout verifier.  A ctypes class  *)
(* is a name of CTypes; a class under test has fields [name, ftype, offset], *)
(* offset being what ctypes reports as getattr( t, fname ).offset.           *)

MaxFields == 2

\* offsets ctypes can report for a field: a packed class puts a field at any
\* byte
Offsets == {0, 1, 4, 6}

\* what ctypes knows of a class: ctypes.alignment (ILP32 values), whether its
\* metaclass is that of _Pointer, and the types of its _fields_ ("struct"
\* classes are the ones with a _fields_ attribute)
CType(kind, align, fields) == [kind |-> kind, align |-> align, fields |-> fields]

CTypes == [t \in TypeNames |->
    CASE t = "c_char"   -> CType("simple", 1, <<>>)
      [] t = "c_int"    -> CType("simple", 4, <<>>)
      [] t = "c_char_p" -> CType("simple", 4, <<>>)
      [] t = "c_void_p" -> CType("simple", 4, <<>>)
      [] t = "LP_c_int" -> CType("pointer", 4, <<>>)
      [] t = "Plain"    -> CType("struct", 4, <<"c_int", "c_char", "c_char_p">>)
      [] t = "Link"     -> CType("struct", 4, <<"c_int", "LP_c_int", "c_char">>)
      [] OTHER          -> CType("struct", 4, <<"c_char", "Link">>)]

\* the types a field of the class under test can have
FieldTypes == {"c_char", "c_int", "c_char_p", "c_void_p", "Plain", "Holder"}

fieldName(i) == IF i = 1 THEN "f1" ELSE IF i = 2 THEN "f2" ELSE "f3"

\* hasPointers without the look into _fields_
hasPointersShallow(memo, t) ==
    IF memo[t] # "absent" THEN [memo |-> memo, rv |-> memo[t] = "True"]
    ELSE Only({[memo |-> [memo EXCEPT ![t] = IF rv THEN "True" ELSE "False"],
                rv |-> rv]
               : rv \in {CTypes[t].kind = "pointer" \/ t = "c_void_p"}})

RECURSIVE hasPointers(_, _)
RECURSIVE fieldsHavePointers(_, _)

\* the loop "for fieldinfo in t._fields_" of hasPointers, with its break;
\* returns [memo, rv]
fieldsHavePointers(memo, ftypes) ==
    IF ftypes = <<>> THEN [memo |-> memo, rv |-> FALSE]
    ELSE Only({IF r.rv THEN r ELSE fieldsHavePointers(r.memo, Tail(ftypes))
               : r \in {hasPointers(memo, Head(ftypes))}})

\* hasPointers; returns [memo, rv]
hasPointers(memo, t) ==
    IF memo[t] # "absent" THEN [memo |-> memo, rv |-> memo[t] = "True"]
    ELSE Only({[memo |-> [r.memo EXCEPT ![t] = IF r.rv THEN "True" ELSE "False"],
                rv |-> r.rv]
               : r \in {IF CTypes[t].kind = "pointer" \/ t = "c_void_p"
                        THEN [memo |-> memo, rv |-> TRUE]
                        ELSE IF CTypes[t].kind = "struct"
                        THEN fieldsHavePointers(memo, CTypes[t].fields)
                        ELSE [memo |-> memo, rv |-> FALSE]}})

\* the classes handed to the check: without _fields_, or with up to
\* MaxFields fields at offsets that do not decrease, and any allow_unaligned
ClassesUnderTest ==
    {NoClass} \cup
    UNION {{[hasFields |-> TRUE,
             fields |-> [i \in 1..n |-> [name |-> fieldName(i),
                                         ftype |-> ft[i], offset |-> off[i]]],
             allowed |-> al]
            : ft \in [1..n -> FieldTypes],
              off \in {o \in [1..n -> Offsets] :
                         \A i \in 1..n : i > 1 => o[i - 1] <= o[i]},
              al \in SUBSET {fieldName(i) : i \in 1..n}}
           : n \in 0..MaxFields}

\* a call of checkUnalignedPtrs( t ); the first part of a session is fixed
InitVerify ==
    /\ phase = "test"
    /\ binaries = "ok"
    /\ errorfuncGiven = FALSE
    /\ existingTypes = <<>>
    /\ requiredTypes = <<>>
    /\ functions = <<>>
    /\ globalVars = <<>>
    /\ loopIdx = 1
    /\ nsNodes = [p \in {<<>>} |-> Namespace]
    /\ todo = <<>>
    /\ examined = <<>>
    /\ typesByDieKey = [k \in AllKeys |-> 0]
    /\ nodes = <<>>
    /\ dttLog = {}
    /\ declaredTypes = {}
    /\ definedTypes = {}
    /\ work = <<>>
    /\ out = <<>>
    /\ sink = <<>>
    /\ stdout = <<>>
    /\ errors = 0
    /\ result = "none"
    /\ vt \in ClassesUnderTest
    /\ vi = 1
    /\ vlog = <<>>
    /\ vres = [st |-> "run", field |-> ""]
    /\ hasPointersMemo \in {NoMemo, [NoMemo EXCEPT !["Link"] = "True"]}

\* "if not hasattr( t, '_fields_' ): return", and the end of the loop
CheckReturn ==
    /\ vres.st = "run"
    /\ ~vt.hasFields \/ vi > Len(vt.fields)
    /\ vres' = [st |-> "returned", field |-> ""]
    /\ UNCHANGED <<sessionVars, vt, vi, vlog, hasPointersMemo>>

\* one turn of "for fieldinfo in t._fields_"
CheckField ==
    /\ vres.st = "run"
    /\ vt.hasFields
    /\ vi <= Len(vt.fields)
    /\ \E f \in {vt.fields[vi]} :
       IF f.offset % CTypes[f.ftype].align = 0
       THEN /\ vi' = vi + 1
            /\ UNCHANGED <<vlog, vres, hasPointersMemo>>
       ELSE \E r \in {hasPointers(hasPointersMemo, f.ftype)} :
            /\ hasPointersMemo' = r.memo
            /\ IF ~r.rv
               THEN /\ vi' = vi + 1
                    /\ UNCHANGED <<vlog, vres>>
               ELSE IF f.name \in vt.allowed
               THEN /\ vlog' = Append(vlog, f.name)
                    /\ vi' = vi + 1
                    /\ UNCHANGED vres
               ELSE /\ vres' = [st |-> "raised", field |-> f.name]
                    /\ UNCHANGED <<vi, vlog>>
    /\ UNCHANGED <<sessionVars, vt>>

NextVerify ==
    \/ CheckReturn
    \/ CheckField

SpecVerify == InitVerify /\ [][NextVerify]_vars

-----------------------------------------------------------------------------
(* CTypeGenRun: checkOffsets and checkSize, the two other checks that        *)
(* test_class makes of a generated class.                                    *)

\* the session part of the state while a check of the verifier runs
NoSession ==
    /\ phase = "test"
    /\ binaries = "ok"
    /\ errorfuncGiven = FALSE
    /\ existingTypes = <<>>
    /\ requiredTypes = <<>>
    /\ functions = <<>>
    /\ globalVars = <<>>
    /\ loopIdx = 1
    /\ nsNodes = [p \in {<<>>} |-> Namespace]
    /\ todo = <<>>
    /\ examined = <<>>
    /\ typesByDieKey = [k \in AllKeys |-> 0]
    /\ nodes = <<>>
    /\ dttLog = {}
    /\ declaredTypes = {}
    /\ definedTypes = {}
    /\ work = <<>>
    /\ out = <<>>
    /\ sink = <<>>
    /\ stdout = <<>>
    /\ errors = 0
    /\ result = "none"
    /\ vlog = <<>>
    /\ hasPointersMemo = NoMemo

\* None in the offsets side-table
None == 0 - 1

\* what the generated module can record for a field: nothing, or the offset
\* the debug information gave
RecordedOffsets == {None} \cup Offsets \cup {o + 1 : o \in Offsets}

\* "if offset is not None" taken as "if offset": a recorded 0 counts as absent
isRecordedTruthy(offset) == offset # None /\ offset # 0

\* "if offset is not None"
isRecorded(offset) == offset # None

\* zip( cls._fields_, cls.offsets ) stops with the shorter of the two
zipLen(cls) == IF Len(cls.fields) <= Len(cls.offsets)
               THEN Len(cls.fields) ELSE Len(cls.offsets)

\* the classes of n fields handed to checkOffsets: with or without _fields_
\* and offsets, the fields at the offsets ctypes computed, and the side-table
\* with one entry for each field that StructType.define writes
OffsetClasses(n) ==
    {[hasFields |-> hf, hasOffsets |-> ho,
      fields |-> [i \in 1..n |-> [name |-> fieldName(i), offset |-> off[i]]],
      offsets |-> rec]
     : hf \in BOOLEAN, ho \in BOOLEAN,
       off \in {o \in [1..n -> Offsets] :
                  \A i \in 1..n : i > 1 => o[i - 1] <= o[i]},
       rec \in [1..n -> RecordedOffsets]}

\* a call of checkOffsets( cls )
InitOffsets ==
    /\ NoSession
    /\ \E n \in 0..MaxFields : vt \in OffsetClasses(n)
    /\ vi = 1
    /\ vres = [st |-> "offsets", field |-> ""]

\* "if not hasattr( cls, '_fields_' ) or not hasattr( cls, 'offsets' ):
\* return", and the end of the loop
OffsetsReturn ==
    /\ vres.st = "offsets"
    /\ ~vt.hasFields \/ ~vt.hasOffsets \/ vi > zipLen(vt)
    /\ vres' = [st |-> "returned", field |-> ""]
    /\ UNCHANGED <<sessionVars, vt, vi, vlog, hasPointersMemo>>

\* one turn of "for field, offset in zip( cls._fields_, cls.offsets )"
OffsetsField ==
    /\ vres.st = "offsets"
    /\ vt.hasFields /\ vt.hasOffsets
    /\ vi <= zipLen(vt)
    /\ IF isRecorded(vt.offsets[vi]) /\ vt.fields[vi].offset # vt.offsets[vi]
       THEN /\ vres' = [st |-> "raised", field |-> vt.fields[vi].name]
            /\ UNCHANGED vi
       ELSE /\ vi' = vi + 1
            /\ UNCHANGED vres
    /\ UNCHANGED <<sessionVars, vt, vlog, hasPointersMemo>>

NextOffsets ==
    \/ OffsetsReturn
    \/ OffsetsField

SpecOffsets == InitOffsets /\ [][NextOffsets]_vars

\* sizes sizeof( cls ) and cls.native_size are drawn from
MaxSize == 7

\* the test of checkSize once the class has a definition, with the empty
\* class of size 1 in C++ let through whatever its ctypes size
sizeAgreesLoose(sizeof, native_size) ==
    sizeof = native_size \/ native_size = 1

\* "if sizeof( cls ) == cls.native_size: return" and "if sizeof( cls ) == 0
\* and cls.native_size == 1: return"
sizeAgrees(sizeof, native_size) ==
    sizeof = native_size \/ (sizeof = 0 /\ native_size = 1)

\* the classes handed to checkSize: have_definition is set by define() only
SizeClasses ==
    {[haveDefinition |-> hd, sizeof |-> s, native_size |-> ns]
     : hd \in BOOLEAN, s \in 0..MaxSize, ns \in 0..MaxSize}

\* a call of checkSize( cls )
InitSize ==
    /\ NoSession
    /\ vt \in SizeClasses
    /\ vi = 1
    /\ vres = [st |-> "size", field |-> ""]

checkSize ==
    /\ vres.st = "size"
    /\ vres' = IF ~vt.haveDefinition \/ sizeAgrees(vt.sizeof, vt.native_size)
               THEN [st |-> "returned", field |-> ""]
               ELSE [st |-> "raised", field |-> ""]
    /\ UNCHANGED <<sessionVars, vt, vi, vlog, hasPointersMemo>>

NextSize == checkSize

SpecSize == InitSize /\ [][NextSize]_vars

-----------------------------------------------------------------------------
(* Properties.                                                              *)

\* what is said of the session: the caller's sink when one was given, else
\* standard output, where TypeResolver.error prefixes "error: "
Reported(msg) ==
    IF errorfuncGiven
    THEN Cardinality({k \in 1..Len(sink) : sink[k] = msg})
    ELSE Cardinality({k \in 1..Len(stdout) : stdout[k] = "error: " \o msg})

Fatals(log) == Cardinality({k \in 1..Len(log) : log[k] = "Fatal error: "})

HasOut(k, nm) == \E r \in 1..Len(out) : out[r].k = k /\ out[r].name = nm

Written == out # <<>> /\ out[Len(out)].k = "main"

\* the first supplied prior session, in the order given, that defined a type
\* for the key
FirstPrior(key) ==
    LET ps == {i \in 1..Len(existingTypes) : PriorAt(existingTypes[i], key) # NoType}
    IN IF ps = {} THEN NoType
       ELSE PriorAt(existingTypes[CHOOSE i \in ps : \A j \in ps : i <= j], key)

\* C1: dieToType memoizes by identity key.  No two Type objects of the session
\* have the same key; every call for a key returns the same instance; a call
\* for a key already in the memo builds nothing; and when a supplied prior
\* session defined a type for the key, every call returns the instance of the
\* first such session in the order given and nothing is built for the key.
C1_IdentityMemo ==
    /\ \A i, j \in 1..Len(nodes) :
         dieKey(nodes[i].die) = dieKey(nodes[j].die) => i = j
    /\ \A a, b \in dttLog : a.key = b.key => a.t = b.t
    /\ \A a \in dttLog : a.had => a.made = 0
    /\ \A a \in dttLog :
         FirstPrior(a.key) # NoType => a.t = FirstPrior(a.key) /\ a.made = 0
    /\ \A i \in 1..Len(nodes) : FirstPrior(dieKey(nodes[i].die)) = NoType

\* a key asked for again after its Type was built, and a key that two prior
\* sessions define, resolved to the first of them
C1_Witness ==
    /\ \E a \in dttLog : a.had /\ IsCur(a.t)
    /\ \E a \in dttLog :
         /\ IsPrior(a.t)
         /\ Len(existingTypes) = 2
         /\ \A i \in 1..2 : PriorAt(existingTypes[i], a.key) # NoType
         /\ a.t.res = existingTypes[1]

\* C2: however often declareType and defineType are called for a Type, its
\* forward declaration is written at most once and its body at most once.
C2_WrittenOnce ==
    \A i, j \in 1..Len(out) :
       /\ i # j
       /\ out[i].t # NoType
       /\ out[i].t = out[j].t
       => \/ out[i].k # out[j].k
          \/ out[i].k \notin {"class", "typedef", "fields", "enum"}

\* struct A was asked for by name and through its typedef T, so defineType
\* was called for it twice, and the output is complete
C2_Witness ==
    /\ Written
    /\ \E i, j \in 1..Len(requiredTypes) :
         /\ requiredTypes[i].pythonName = "A"
         /\ requiredTypes[j].pythonName = "T"
         /\ IsCur(requiredTypes[i].type)
         /\ IsCur(requiredTypes[j].type)
         /\ \E r \in 1..Len(out) :
              out[r].k = "fields" /\ out[r].t = requiredTypes[i].type
    /\ HasOut("typedef", "T")

\* the emitter is about to define the Type object of entry d, asked for by
\* name
Starts(d) ==
    /\ phase = "write"
    /\ work # <<>>
    /\ Head(work).op = "defineType"
    /\ IsCur(Head(work).t)
    /\ nodes[Head(work).t.id].die = d

BothDeclared(nm) ==
    /\ HasOut("fields", nm)
    /\ HasOut("class", "A")
    /\ HasOut("class", "B")

\* C3: struct A holds a pointer to struct B and struct B a pointer to
\* struct A, both types of this session.  Emission started from either of
\* them comes to its end, with the body of that type written and a forward
\* declaration written for both.
C3_CycleTerminates ==
    /\ Starts(3) ~> BothDeclared("A")
    /\ Starts(7) ~> BothDeclared("B")

\* the whole output was written from a request for struct B alone
C3_Witness ==
    /\ Written
    /\ Len(requiredTypes) = 1
    /\ requiredTypes[1].pythonName = "B"
    /\ IsCur(requiredTypes[1].type)
    /\ BothDeclared("B")

\* C4: once the pending-count of the root namespace is zero after an entry
\* was examined, no further entry is examined.
C4_TraversalStops ==
    [][(examined # <<>> /\ nsNodes[<<>>].unresolvedCount = 0)
         => examined' = examined]_vars

\* everything asked for was found in the first unit, inside a nested
\* namespace, and the second unit was never examined
C4_Witness ==
    /\ phase = "write"
    /\ requiredTypes # <<>>
    /\ nsNodes[<<>>].unresolvedCount = 0
    /\ 11 \in Range(examined)
    /\ 26 \notin Range(examined)
    /\ Len(examined) < Cardinality(DieIds)


\* the names asked for in namespace p that are still unresolved
OwnUnresolved(p) ==
    Cardinality({i \in 1..Len(nsNodes[p].types) :
                   requiredTypes[nsNodes[p].types[i].value].type = NoType})
    + Cardinality({i \in 1..Len(nsNodes[p].variables) :
                   nsNodes[p].variables[i].value = 0})
    + Cardinality({i \in 1..Len(nsNodes[p].functions) :
                   nsNodes[p].functions[i].value = 0})

SubspacesOf(p) == {q \in DOMAIN nsNodes : q # <<>> /\ Front(q) = p}

RECURSIVE SumCounts(_)
SumCounts(S) ==
    IF S = {} THEN 0
    ELSE LET q == CHOOSE x \in S : TRUE
         IN nsNodes[q].unresolvedCount + SumCounts(S \ {q})

\* C5 as stated: the pending-count of every namespace is the number of its
\* own unresolved names plus the sum of the pending-counts of its
\* sub-namespaces.
C5_SumOfSubtree ==
    \A p \in DOMAIN nsNodes :
       nsNodes[p].unresolvedCount = OwnUnresolved(p) + SumCounts(SubspacesOf(p))

\* C5, amended: the pending-count of every namespace is the number of its own
\* unresolved names plus the number of its sub-namespaces whose pending-count
\* is not zero (an insertion counts in the parent only when the namespace
\* below goes from zero to one).
C5_PendingCount ==
    \A p \in DOMAIN nsNodes :
       nsNodes[p].unresolvedCount =
          OwnUnresolved(p)
          + Cardinality({q \in SubspacesOf(p) : nsNodes[q].unresolvedCount > 0})

\* two names pending in one sub-namespace, counted once in the root
C5_Witness ==
    /\ <<"ns">> \in DOMAIN nsNodes
    /\ nsNodes[<<"ns">>].unresolvedCount = 2
    /\ nsNodes[<<>>].unresolvedCount = 1
    /\ phase = "traverse"
    /\ examined # <<>>

\* C6 as stated: once the output is written, decorateFunctions holds a
\* binding for every function resolved in any namespace.
C6_EveryFunctionBound ==
    Written =>
      \A p \in DOMAIN nsNodes : \A i \in 1..Len(nsNodes[p].functions) :
         nsNodes[p].functions[i].value # 0
           => HasOut("argtypes", name(nsNodes[p].functions[i].value, 0))

\* struct ns::S was asked for with the hint typename = "Inner" on its member u
\* and the output is written
HintedWritten ==
    /\ Written
    /\ \E i \in 1..Len(requiredTypes) :
         /\ requiredTypes[i].pythonName = "S"
         /\ IsCur(requiredTypes[i].type)

FieldRefers(struct, field, to) ==
    \E r \in 1..Len(out) :
       /\ out[r].k = "fields"
       /\ out[r].name = struct
       /\ \E f \in 1..Len(out[r].fields) :
            out[r].fields[f].n = field /\ out[r].fields[f].c = to

\* C7 as stated: the anonymous type of the hinted field is declared under the
\* name Inner and the struct's field list refers to it by that name.
C7_DeclaredAsInner ==
    HintedWritten =>
      /\ HasOut("class", "Inner")
      /\ FieldRefers(pyName(11, 0), "u", "Inner")

\* C7, amended: the anonymous type is declared under the name made from its
\* scoped name in the debug information, the struct's field list refers to it
\* by that name, and the name Inner is bound to it by an assignment written
\* after every type.
C7_InnerAssigned ==
    HintedWritten =>
      /\ HasOut("class", pyName(12, 0))
      /\ ~HasOut("class", "Inner")
      /\ FieldRefers(pyName(11, 0), "u", pyName(12, 0))
      /\ \E a \in 1..Len(out) :
           /\ out[a] = OutRec("assign", out[a].t, "Inner", pyName(12, 0), <<>>, <<>>)
           /\ typeDie(H0, out[a].t) = 12
           /\ \A r \in 1..Len(out) :
                out[r].k \in {"class", "fields", "enum", "typedef"} => r < a

C7_Witness ==
    /\ HintedWritten
    /\ result = "ok"
    /\ HasOut("assign", "Inner")


\* the requested types that the traversal left unresolved
UnresolvedTypes ==
    {i \in 1..Len(requiredTypes) : requiredTypes[i].type = NoType}

\* the hint loop is over: the emitter started
Emitting == out # <<>>

\* C8 as stated: a requested type left unresolved by the traversal is fatal,
\* the session fails and writes nothing.
C8_UnresolvedTypeFatal ==
    (UnresolvedTypes # {} /\ phase \in {"write", "load", "test", "done"})
       => /\ out = <<>>
          /\ result \in {"none", "fail"}

\* C8, amended: a requested type left unresolved is reported once ("no type
\* for" and its python name) and the session goes on without it, as it does
\* for a variable or a function that was not found: the hint loop never ends
\* the session, nothing is written under the name of the unresolved type,
\* and a missing variable or function is reported once and gets no
\* definition in the output.
C8_UnresolvedReported ==
    /\ [](Emitting =>
           \A i \in UnresolvedTypes :
              /\ Reported("no type for " \o requiredTypes[i].pythonName) = 1
              /\ \A r \in 1..Len(out) : out[r].name # requiredTypes[i].pythonName)
    /\ [](Written =>
           \A p \in DOMAIN nsNodes :
              /\ \A i \in 1..Len(nsNodes[p].variables) :
                   nsNodes[p].variables[i].value = 0 =>
                     /\ Reported("variable " \o nsNodes[p].variables[i].name
                                 \o " not found in namespace " \o nsName(p)) = 1
                     /\ ~HasOut("global", nsNodes[p].variables[i].name)
              /\ \A i \in 1..Len(nsNodes[p].functions) :
                   nsNodes[p].functions[i].value = 0 =>
                     /\ Reported("function " \o nsNodes[p].functions[i].name
                                 \o " not found") = 1
                     /\ ~HasOut("argtypes", nsNodes[p].functions[i].name))
    /\ [][(phase = "hints" /\ loopIdx <= Len(requiredTypes))
            => phase' = "hints"]_vars

\* a session that asked for a type, a variable and a function that do not
\* exist, and succeeded
C8_Witness ==
    /\ result = "ok"
    /\ \E i \in UnresolvedTypes : requiredTypes[i].pythonName = "Zz"
    /\ \E p \in DOMAIN nsNodes :
         \E i \in 1..Len(nsNodes[p].functions) : nsNodes[p].functions[i].value = 0
    /\ Len(out) > 3

\* C9: generate returns a pair whatever happens.  When a step raises, the
\* error sink (the caller's errorfunc, else standard output) gets exactly one
\* message that starts with "Fatal error:" and the pair is the failure pair;
\* on success nothing fatal is reported and the module was written, loaded
\* and tested.  (Binaries that are no list, with an errorfunc, are refused
\* with a plain message and the failure pair, no step having raised.)
C9_GenerateNeverRaises ==
    /\ (phase = "done") <=> (result \in {"ok", "fail"})
    /\ result \in {"none", "ok", "fail"}
    /\ result = "ok" => /\ Fatals(sink) + Fatals(stdout) = 0
                        /\ Written
    /\ result = "none" => Fatals(sink) + Fatals(stdout) = 0
    /\ result = "fail" =>
         IF binaries = "notlist" /\ errorfuncGiven
         THEN /\ Fatals(sink) + Fatals(stdout) = 0
              /\ sink = <<"CTypeGen.generate requires a list of ELF images as its first argument">>
         ELSE IF errorfuncGiven
         THEN Fatals(sink) = 1 /\ Fatals(stdout) = 0
              /\ sink[Len(sink)] = "Fatal error: "
         ELSE Fatals(stdout) = 1 /\ Fatals(sink) = 0
              /\ stdout[Len(stdout)] = "Fatal error: "

\* a step of the emitter raised after part of the output was written, with a
\* caller's errorfunc
C9_Witness ==
    /\ result = "fail"
    /\ errorfuncGiven
    /\ Emitting
    /\ ~Written
    /\ Fatals(sink) = 1


\* the classes that are a pointer or hold one at any depth
PointerBearing == {"c_void_p", "LP_c_int", "Link", "Holder"}

\* field i of the class under test is misaligned and pointer-bearing
Unaligned(i) ==
    /\ vt.fields[i].offset % CTypes[vt.fields[i].ftype].align # 0
    /\ vt.fields[i].ftype \in PointerBearing

Exempt(i) == vt.fields[i].name \in vt.allowed

\* C10: the alignment check goes through the fields in order.  It raises on
\* a field exactly when the field is misaligned, pointer-bearing and not in
\* allow_unaligned, and it stops there; a misaligned pointer-bearing field
\* that is in allow_unaligned gets one warning and no raise; an aligned
\* field, and a misaligned one that holds no pointer, gets neither; a class
\* without fields raises nothing.
C10_AlignmentCheck ==
    vres.st \in {"run", "returned", "raised"} =>
      /\ vi \in 1..(Len(vt.fields) + 1)
      /\ \A i \in 1..(vi - 1) : Unaligned(i) => Exempt(i)
      /\ vlog = SelectSeq([i \in 1..(vi - 1) |->
                             IF Unaligned(i) /\ Exempt(i)
                             THEN vt.fields[i].name ELSE ""],
                          LAMBDA n : n # "")
      /\ vres.st = "raised" =>
           /\ vi <= Len(vt.fields)
           /\ Unaligned(vi)
           /\ ~Exempt(vi)
           /\ vres.field = vt.fields[vi].name
      /\ vres.st = "returned" => vi = Len(vt.fields) + 1

\* the check warned about an exempt field and raised on the next one, whose
\* struct type holds a pointer two levels down
C10_Witness ==
    /\ vres = [st |-> "raised", field |-> "f2"]
    /\ vlog = <<"f1">>
    /\ vt.fields[2].ftype = "Holder"

\* C11: checkOffsets raises exactly when some member with a recorded (not
\* None) expected offset sits at a different offset in the ctypes class: with
\* every recorded offset equal to the runtime one it returns, and with any one
\* recorded offset off by one it raises.  A class without _fields_ or without
\* the side-table is not checked.
C11_OffsetsChecked ==
    vres.st \in {"returned", "raised"} =>
        ((vres.st = "raised") <=>
            (/\ vt.hasFields
             /\ vt.hasOffsets
             /\ \E k \in 1..Len(vt.fields) :
                   /\ vt.offsets[k] # None
                   /\ vt.offsets[k] # vt.fields[k].offset))

\* the check raised at the second field, whose recorded offset is one more
\* than its runtime offset, after a first field recorded at its own offset 0
C11_Witness ==
    /\ vres = [st |-> "raised", field |-> "f2"]
    /\ vt.hasFields /\ vt.hasOffsets
    /\ Len(vt.fields) >= 2
    /\ vt.offsets[1] = 0 /\ vt.fields[1].offset = 0
    /\ vt.offsets[2] = vt.fields[2].offset + 1

\* C12: checkSize raises unless the ctypes size equals the recorded native
\* size, or the ctypes size is 0 and the native size is 1; a class with no
\* recorded definition (no have_definition) is never checked.
C12_SizeChecked ==
    vres.st \in {"returned", "raised"} =>
        ((vres.st = "returned") <=>
            (\/ ~vt.haveDefinition
             \/ vt.sizeof = vt.native_size
             \/ (vt.sizeof = 0 /\ vt.native_size = 1)))

\* a defined class of ctypes size 2 and native size 1 was refused
C12_Witness ==
    /\ vres.st = "raised"
    /\ vt.haveDefinition
    /\ vt.sizeof = 2
    /\ vt.native_size = 1

\* the entry examineDIE is about to see
NextDie == Dies[Head(todo).die]

Traversing == phase = "traverse" /\ todo # <<>>

\* C13: a declaration-only entry (variable, function or type) never fills a
\* resolution slot and never decrements a pending-count; a later entry of the
\* same name that is not a declaration still fills the slot.
C13_DeclarationSkipped ==
    [][(Traversing /\ NextDie.decl) =>
          (nsNodes' = nsNodes /\ requiredTypes' = requiredTypes)]_vars

\* the slot of the current namespace that the entry about to be examined
\* names is already resolved
SlotTaken ==
    LET me == nsNodes[Head(todo).ctx]
        nm == NextDie.name
    IN  \/ /\ NextDie.tag = "variable"
           /\ \E i \in 1..Len(me.variables) :
                 me.variables[i].name = nm /\ me.variables[i].value # 0
        \/ /\ NextDie.tag = "subprogram"
           /\ \E i \in 1..Len(me.functions) :
                 me.functions[i].name = nm /\ me.functions[i].value # 0
        \/ /\ NextDie.tag \in typeDieTags
           /\ \E i \in 1..Len(me.types) :
                 /\ me.types[i].name = nm
                 /\ requiredTypes[me.types[i].value].type # NoType

\* C14: first definition wins.  Once a slot is resolved its binding never
\* changes, and an entry whose name is an already resolved slot of the
\* current namespace leaves every namespace, pending-counts included, as it
\* was.
C14_FirstDefinitionWins ==
    [][/\ \A p \in DOMAIN nsNodes :
            /\ \A i \in 1..Len(nsNodes[p].variables) :
                  nsNodes[p].variables[i].value # 0 =>
                      nsNodes'[p].variables[i] = nsNodes[p].variables[i]
            /\ \A i \in 1..Len(nsNodes[p].functions) :
                  nsNodes[p].functions[i].value # 0 =>
                      nsNodes'[p].functions[i] = nsNodes[p].functions[i]
       /\ \A i \in 1..Len(requiredTypes) :
            requiredTypes[i].type # NoType =>
                requiredTypes'[i].type = requiredTypes[i].type
       /\ (Traversing /\ SlotTaken) => nsNodes' = nsNodes]_vars

\* the second unit's definition of g has been examined while g was bound to
\* the first unit's, and the binding is still the first
C14_Witness ==
    /\ \E k \in 1..Len(examined) : examined[k] = 29
    /\ \E i \in 1..Len(nsNodes[<<>>].functions) :
          nsNodes[<<>>].functions[i] = [name |-> "g", value |-> 19]

\* the request about to be inserted repeats the name of an earlier request of
\* the same kind
RepeatsEarlier ==
    \/ /\ phase = "addTypes" /\ loopIdx <= Len(requiredTypes)
       /\ \E j \in 1..(loopIdx - 1) :
             requiredTypes[j].cName = requiredTypes[loopIdx].cName
    \/ /\ phase = "addVars" /\ loopIdx <= Len(globalVars)
       /\ \E j \in 1..(loopIdx - 1) : globalVars[j] = globalVars[loopIdx]
    \/ /\ phase = "addFuncs" /\ loopIdx <= Len(functions)
       /\ \E j \in 1..(loopIdx - 1) : functions[j] = functions[loopIdx]

\* C15: inserting a name that is already present in its namespace is reported
\* as "duplicate name" and is not fatal: the first binding and every
\* pending-count stay as they were, and the session goes on with the next
\* insertion (and later the traversal).
C15_DuplicateReported ==
    [][RepeatsEarlier =>
          /\ nsNodes' = nsNodes
          /\ Reported("duplicate name: A")' = Reported("duplicate name: A") + 1
          /\ loopIdx' = loopIdx + 1
          /\ phase' = phase
          /\ result' = "none"]_vars

\* type A was requested twice (as A and as MyA): the duplicate was reported,
\* the variable requested after it was inserted, the traversal ran and bound
\* A to the first request
C15_Witness ==
    /\ Len(requiredTypes) = 2
    /\ requiredTypes[1].cName = requiredTypes[2].cName
    /\ Reported("duplicate name: A") = 1
    /\ HasName(nsNodes[<<>>].variables, "v")
    /\ examined # <<>>
    /\ requiredTypes[1].type # NoType
    /\ requiredTypes[2].type = NoType
    /\ nsNodes[<<>>].types = << [name |-> "A", value |-> 1] >>

\* C16: every structural error (here a duplicate name) is delivered to the
\* error sink and increments the resolver's error counter, whether the sink
\* is the default one or one supplied by the caller.
C16_StructuralErrorCounted ==
    Reported("duplicate name: A") <= errors

\* the key of a type that some supplied prior module defined
PriorKeys == {k \in AllKeys : FirstPrior(k) # NoType}

\* C17: a Type that belongs to a prior module is used as is: declareType and
\* defineType write nothing for it (no class statement, field list, enum or
\* alias of its own) and enter it in neither declaredTypes nor definedTypes.
C17_PriorUsedAsIs ==
    /\ \A r \in 1..Len(out) :
          out[r].k \in {"class", "fields", "enum", "typedef"} => IsCur(out[r].t)
    /\ (declaredTypes \cup definedTypes) \cap PriorKeys = {}

\* typedef T of struct A was written with A taken from a prior module: both
\* defineType and declareType were called on the prior A, and the output has
\* the alias but neither a class statement nor a field list for A
C17_Witness ==
    /\ Written
    /\ existingTypes # <<>>
    /\ HasOut("typedef", "T")
    /\ \E e \in dttLog : e.key = dieKey(3) /\ IsPrior(e.t)
    /\ ~HasOut("class", "A")
    /\ ~HasOut("fields", "A")
    /\ dieKey(3) \notin declaredTypes \cup definedTypes

\* the field lists of structures in the output (a union has no side-table)
StructFields ==
    {r \in 1..Len(out) : /\ out[r].k = "fields"
                         /\ typeFromTag[Dies[nodes[out[r].t.id].die].tag] = "StructType"}

\* the members behind field list r, and the storage offset of member k
MembersAt(r) == nodes[out[r].t.id].members

StorageOffset(r, k) == Dies[MembersAt(r)[k].die].loc

\* the last offset the side-table records before entry k, -1 when none
LastRecorded(off, k) ==
    LET rec == {j \in 1..(k - 1) : off[j] # None}
    IN IF rec = {} THEN 0 - 1 ELSE off[CHOOSE j \in rec : \A i \in rec : i <= j]

RECURSIVE NamedBy(_)
\* the aggregate whose class name the ctype text of entry d contains, 0 when
\* there is none: a pointer, array or qualifier spells out its base type, a
\* typedef is spelt by its own name
NamedBy(d) ==
    IF d = 0 THEN 0
    ELSE IF typeFromTag[Dies[d].tag] \in {"StructType", "UnionType"} THEN d
    ELSE IF typeFromTag[Dies[d].tag] \in {"PointerType", "ArrayType", "ConstType",
                                          "VolatileType", "RestrictType"}
    THEN NamedBy(Dies[d].type)
    ELSE 0

RECURSIVE HeldByValue(_)
\* the aggregate a member of type d holds by value, directly or through an
\* array, a typedef or a qualifier; 0 when there is none
HeldByValue(d) ==
    IF d = 0 THEN 0
    ELSE IF typeFromTag[Dies[d].tag] \in {"StructType", "UnionType"} THEN d
    ELSE IF typeFromTag[Dies[d].tag] \in {"ArrayType", "Typedef", "ConstType",
                                          "VolatileType", "RestrictType"}
    THEN HeldByValue(Dies[d].type)
    ELSE 0

\* output record c is the record of kind k of the aggregate of entry a
RecordOf(c, k, a) ==
    /\ out[c].k = k
    /\ dieKey(nodes[out[c].t.id].die) = dieKey(a)

\* the aggregates of this session that output record r refers to by name
RefersTo(r) ==
    LET named ==
          IF out[r].k = "fields"
          THEN {nodes[out[r].t.id].die}
               \cup {NamedBy(Dies[MembersAt(r)[k].die].type) :
                       k \in {j \in 1..Len(MembersAt(r)) :
                                 MembersAt(r)[j].ctypeOverride = ""}}
          ELSE IF out[r].k = "typedef"
          THEN {NamedBy(Dies[nodes[out[r].t.id].die].type)}
          ELSE IF out[r].k = "global"
          THEN {NamedBy(Dies[nsNodes[p].variables[i].value].type) :
                  <<p, i>> \in {<<q, j>> \in
                      UNION {{q} \X (1..Len(nsNodes[q].variables)) : q \in DOMAIN nsNodes} :
                        /\ nsNodes[q].variables[j].value # 0
                        /\ nsNodes[q].variables[j].name = out[r].name}}
          ELSE IF out[r].k = "argtypes"
          THEN UNION {{NamedBy(Dies[definition(f)].type)}
                      \cup {NamedBy(Dies[params(Dies[f].kids)[k]].type) :
                              k \in 1..Len(params(Dies[f].kids))}
                      : f \in {nsNodes[<<>>].functions[i].value :
                                 i \in {j \in 1..Len(nsNodes[<<>>].functions) :
                                    /\ nsNodes[<<>>].functions[j].value # 0
                                    /\ nsNodes[<<>>].functions[j].name = out[r].name}}}
          ELSE {}
    IN {a \in named : a # 0 /\ FirstPrior(dieKey(a)) = NoType}

\* the aggregates of this session that the members of field list r hold by
\* value
Holds(r) ==
    {a \in {HeldByValue(Dies[MembersAt(r)[k].die].type) : k \in 1..Len(MembersAt(r))} :
        a # 0 /\ FirstPrior(dieKey(a)) = NoType}

UnsignedOfSize(size) ==
    CASE size = 1 -> "c_uint8"
      [] size = 2 -> "c_uint16"
      [] size = 4 -> "c_uint32"
      [] size = 8 -> "c_uint64"
      [] OTHER -> ""

\* C20: the scalar type chosen for an enum is the unsigned integer type whose
\* width is the enum's byte size, for the sizes 1, 2, 4 and 8 (c_ubyte is the
\* other name of c_uint8); an enum of any other size is not written at all.
C20_UnsignedOfWidth ==
    \A r \in 1..Len(out) :
        out[r].k = "enum" =>
            LET size == Dies[definition(nodes[out[r].t.id].die)].size
            IN /\ size \in {1, 2, 4, 8}
               /\ out[r].text \in {UnsignedOfSize(size)}
                                  \cup (IF size = 1 THEN {"c_ubyte"} ELSE {})

\* the step examines a scope entry (namespace, struct or class) that has
\* children
AtScope ==
    /\ Traversing
    /\ NextDie.tag \in {"namespace", "structure_type", "class_type"}
    /\ NextDie.kids # <<>>

\* the sub-namespace of the current context that the entry names
SubContext == Append(Head(todo).ctx, NextDie.name)

\* the step made the children of the entry the next to be examined, in the
\* context of the sub-namespace
Descended ==
    todo' = Children(Head(todo).die, SubContext) \o Tail(todo)

\* C21 as stated: a namespace, struct or class entry is descended into only
\* if its name matches a known sub-namespace whose pending-count is greater
\* than zero.
C21_PrunesResolvedSubtree ==
    [][(AtScope /\ Descended) =>
          /\ SubContext \in DOMAIN nsNodes
          /\ nsNodes[SubContext].unresolvedCount > 0]_vars

\* C21: a named namespace, struct or class entry that is not a declaration is
\* descended into exactly when its name is a known sub-namespace of the
\* current context, whatever that sub-namespace's pending-count, as long as
\* the root still has something pending; any other entry has its subtree
\* skipped.
C21_DescendsKnownSubspace ==
    [][AtScope =>
          (Descended <=>
              /\ ~NextDie.decl
              /\ NextDie.name \in Range(nsNodes[Head(todo).ctx].subspaces)
              /\ nsNodes'[<<>>].unresolvedCount > 0
              /\ phase' = "traverse")]_vars

\* the second unit's namespace ns was entered although everything wanted in
\* ns had been found: its child is the entry examined last
C21_Witness ==
    /\ examined # <<>>
    /\ examined[Len(examined)] = 40
    /\ nsNodes[<<"ns">>].unresolvedCount = 0
    /\ nsNodes[<<>>].unresolvedCount > 0

\* no slot of any namespace is unresolved
AllFound == \A p \in DOMAIN nsNodes : OwnUnresolved(p) = 0

RootZero == nsNodes[<<>>].unresolvedCount = 0

\* C22: after any sequence of insertions and resolutions the root's
\* pending-count is zero exactly when no slot of any namespace is unresolved;
\* and a step of the traversal ends it with every remaining entry unvisited
\* when everything is found, and goes on only while something is not.
C22_RootZeroIffAllFound ==
    [][/\ RootZero <=> AllFound
       /\ RootZero' <=> AllFound'
       /\ (Traversing /\ AllFound') => (phase' = "hints" /\ todo' = <<>>)
       /\ (Traversing /\ phase' = "traverse") => ~AllFound']_vars

\* ns::S was the last name wanted: the traversal stopped at its entry with
\* the rest of the first unit and the other units unvisited
C22_Witness ==
    /\ phase = "hints"
    /\ examined # <<>>
    /\ examined[Len(examined)] = 11
    /\ HasName(nsNodes[<<>>].types, "A")
    /\ <<"ns">> \in DOMAIN nsNodes
    /\ HasName(nsNodes[<<"ns">>].types, "S")
    /\ RootZero
    /\ AllFound

\* C23: the assertion of decUnresolved (pending-count > 0 before the
\* decrement) never fails at any node, whatever is requested, duplicates
\* included: no step of the traversal ends the session, and no pending-count
\* is ever negative.
C23_AssertionHolds ==
    [][/\ \A p \in DOMAIN nsNodes' : nsNodes'[p].unresolvedCount >= 0
       /\ Traversing => phase' # "done"]_vars

\* struct A was requested twice and ns::w once; both were found, each
\* decrement passed its assertion in ns and in the root, and the traversal
\* ended with every count zero
C23_Witness ==
    /\ phase = "hints"
    /\ Len(requiredTypes) = 2
    /\ requiredTypes[1].cName = requiredTypes[2].cName
    /\ requiredTypes[1].type # NoType
    /\ <<"ns">> \in DOMAIN nsNodes
    /\ \E i \in 1..Len(nsNodes[<<"ns">>].variables) :
          nsNodes[<<"ns">>].variables[i] = [name |-> "w", value |-> 18]
    /\ \A p \in DOMAIN nsNodes : nsNodes[p].unresolvedCount = 0

=============================================================================
